---- MODULE Spec2Model ----
(***************************************************************************)
(* The message-orchestration loop of OmniChat                              *)
(* (src/omni_chat/core/orchestrator.py): prompt builder, response          *)
(* interpreter, tool dispatcher and the process_message loop, together     *)
(* with the model client (core/gemini_client.py) and the adapters the      *)
(* dispatcher resolves (adapters/*.py).                                    *)
(*                                                                         *)
(* Python values are records [py |-> <type name>, v |-> <payload>].  A str *)
(* is a sequence of fragments, so that an f-string is the concatenation    *)
(* (\o) of its literal parts and of the str() of its arguments; a dict is  *)
(* a function from keys to values.  A call that may raise yields an        *)
(* outcome: Ret(value) or Raise(class name, str(e)).                       *)
(***************************************************************************)
EXTENDS Integers, Sequences, FiniteSets, TLC

(***************************************************************************)
(* Bounds of the model.                                                    *)
(***************************************************************************)
\* longest history a caller hands to process_message
MaxHistory == 1
\* longest per-turn trace of dispatches the model records
MaxTrace == 4

(***************************************************************************)
(* Python values.                                                          *)
(***************************************************************************)
Str(s) == [py |-> "str", v |-> <<s>>]
FStr(parts) == [py |-> "str", v |-> parts]
Num(n) == [py |-> "int", v |-> <<n>>]
Bool(b) == [py |-> "bool", v |-> <<b>>]
None == [py |-> "NoneType", v |-> <<>>]
List(items) == [py |-> "list", v |-> items]
Dict(f) == [py |-> "dict", v |-> f]
EmptyDict == Dict(<<>>)

\* the fragments of str(x): a str is itself, anything else is its repr
StrOf(x) == IF x.py = "str" THEN x.v ELSE <<"repr:", x>>

\* key in dict, for a dict whose keys are strings
InDict(x, f) == x.py = "str" /\ Len(x.v) = 1 /\ x.v[1] \in DOMAIN f

\* Python truthiness: not x
Falsy(x) ==
  CASE x.py = "NoneType" -> TRUE
    [] x.py = "str" -> x.v = <<>> \/ x.v = <<"">>
    [] x.py = "bool" -> x.v = <<FALSE>>
    [] x.py = "int" -> x.v = <<0>>
    [] OTHER -> x.v = <<>>

\* str.lower() on the strings the model client produces
LowerS(s) ==
  CASE s = "REPLY" -> "reply"
    [] s = "Reply" -> "reply"
    [] s = "Tool_Call" -> "tool_call"
    [] s = "TOOL_CALL" -> "tool_call"
    [] s = "User" -> "user"
    [] OTHER -> s
Lower(x) == FStr([i \in 1..Len(x.v) |-> LowerS(x.v[i])])

Ret(val) == [status |-> "return", cls |-> "", val |-> val]
Raise(cls, msg) == [status |-> "raise", cls |-> cls, val |-> FStr(msg)]
Running == [status |-> "running", cls |-> "", val |-> None]

\* sep.join(names), as fragments
RECURSIVE Join(_, _)
Join(sep, names) ==
  IF names = <<>> THEN <<>>
  ELSE IF Len(names) = 1 THEN <<names[1]>>
  ELSE <<names[1], sep>> \o Join(sep, Tail(names))

(***************************************************************************)
(* The catalog store, as MemoryDB.get_tools reads it, and the adapters     *)
(* shipped in omni_chat.adapters.                                          *)
(***************************************************************************)
\* rows of the adapters table: name -> class_name
AdapterRows ==
  [gmail |-> "GmailAdapter", google_calendar |-> "CalendarAdapter",
   legacy_tools |-> "LegacyAdapter"]

\* rows of tools JOIN adapters, in rowid order
ToolRows ==
  << [name |-> "gmail.list_emails", description |-> "List recent emails in your inbox",
      example |-> "", side_effects |-> FALSE, adapter |-> "gmail"],
     [name |-> "gmail.get_email", description |-> "Get the full content of a specific email",
      example |-> "", side_effects |-> FALSE, adapter |-> "gmail"],
     [name |-> "google_calendar.list_events",
      description |-> "List upcoming events from Google Calendar",
      example |-> "{'days': 7}", side_effects |-> FALSE, adapter |-> "google_calendar"] >>

get_tools == ToolRows

\* the join over a store left by an earlier version: a tool the Gmail adapter
\* no longer has, and a tool migrated by _init_db under the "legacy_tools"
\* adapter, for which no module exists
StaleToolRows ==
  << [name |-> "gmail.send_email", description |-> "Send an email",
      example |-> "", side_effects |-> TRUE, adapter |-> "gmail"],
     [name |-> "search", description |-> "Search the web",
      example |-> "", side_effects |-> FALSE, adapter |-> "legacy_tools"] >>

\* the catalogs an orchestrator is constructed over
Catalogs == {ToolRows, StaleToolRows}

\* Orchestrator._load_tools: name -> descriptor
ToolMapping(tools) ==
  [n \in {tools[i].name : i \in 1..Len(tools)} |->
     CHOOSE t \in {tools[i] : i \in 1..Len(tools)} : t.name = n]

\* dict keys in insertion order
ToolNames(tools) == [i \in 1..Len(tools) |-> tools[i].name]

(***************************************************************************)
(* build_prompt                                                            *)
(***************************************************************************)
\* the default {} of tool.get("example", {}), as json.dumps writes it
EmptyExample == "{}"

\* lines 42-50: the entry of one tool
FormatTool(tool) ==
  LET formatted_tool ==
        [name |-> tool.name,
         description |-> IF "description" \in DOMAIN tool THEN tool.description ELSE "",
         example |-> IF "example" \in DOMAIN tool THEN tool.example ELSE EmptyExample]
  IN IF "side_effects" \in DOMAIN tool
     THEN [side_effects |-> tool.side_effects] @@ formatted_tool
     ELSE formatted_tool

\* the first message build_prompt cannot format, 0 if there is none
FirstBadMessage(messages) ==
  IF \E i \in 1..Len(messages) : ~ {"role", "content"} \subseteq DOMAIN messages[i]
  THEN CHOOSE i \in 1..Len(messages) :
         /\ ~ {"role", "content"} \subseteq DOMAIN messages[i]
         /\ \A j \in 1..(i-1) : {"role", "content"} \subseteq DOMAIN messages[j]
  ELSE 0

build_prompt(messages, tools) ==
  LET bad == FirstBadMessage(messages) IN
  IF bad # 0
  THEN Raise("KeyError",
             IF "role" \in DOMAIN messages[bad] THEN <<"'content'">> ELSE <<"'role'">>)
  ELSE Ret([system |-> "default",
            tools |-> [i \in 1..Len(tools) |-> FormatTool(tools[i])],
            messages |-> [i \in 1..Len(messages) |->
                            [role |-> Lower(messages[i].role),
                             text |-> FStr(StrOf(messages[i].content))]]])

\* build_prompt with the current_time of line 56, now being the reading of the
\* clock; build_prompt above is the prompt apart from that field
build_prompt_at(messages, tools, now) ==
  LET built == build_prompt(messages, tools) IN
  IF built.status = "raise" THEN built
  ELSE Ret([current_time |-> now] @@ built.val)

(***************************************************************************)
(* The model client.  Texts the model can answer with, and the text        *)
(* GeminiClient.generate_response returns when the API call fails.         *)
(***************************************************************************)
ReplyTexts ==
  { "{\"type\": \"reply\", \"text\": \"You have no events tomorrow.\"}",
    "{\"type\": \"REPLY\", \"text\": \"Done.\"}",
    "{\"type\": \"reply\"}" }

StaleCallTexts ==
  { "{\"type\": \"tool_call\", \"tool\": \"gmail.send_email\", \"params\": {}}",
    "{\"type\": \"tool_call\", \"tool\": \"search\", \"params\": {}}" }

ToolCallTexts ==
  { "{\"type\": \"tool_call\", \"tool\": \"google_calendar.list_events\", \"params\": {\"days\": \"1\"}}",
    "{\"type\": \"tool_call\", \"tool\": \"google_calendar.list_events\", \"params\": {\"days\": \"soon\"}}",
    "{\"type\": \"tool_call\", \"tool\": \"gmail.get_email\", \"params\": null, \"confirm\": true}" }

BadCallTexts ==
  { "{\"type\": \"tool_call\", \"tool\": \"ghost.do_thing\", \"params\": {}}",
    "{\"type\": \"tool_call\", \"params\": {}}" }

BadTypeTexts ==
  { "{\"type\": \"summary\", \"text\": \"hi\"}",
    "{\"type\": 7}" }

NonObjectTexts == { "[1, 2]", "42", "\"hello\"", "null" }

TruncatedTexts == { "{\"type\": \"reply\", \"text\": \"You have" }

ClientErrorText == "Error generating response: quota exceeded"

ModelTexts ==
  ReplyTexts \cup ToolCallTexts \cup StaleCallTexts \cup BadCallTexts \cup BadTypeTexts
    \cup NonObjectTexts \cup TruncatedTexts

\* generate_response: the stripped model text, or the error text
GenerateResponses == ModelTexts \cup {ClientErrorText}

\* json.loads on the texts above
json_loads(s) ==
  CASE s = "{\"type\": \"reply\", \"text\": \"You have no events tomorrow.\"}" ->
         Ret(Dict([type |-> Str("reply"), text |-> Str("You have no events tomorrow.")]))
    [] s = "{\"type\": \"REPLY\", \"text\": \"Done.\"}" ->
         Ret(Dict([type |-> Str("REPLY"), text |-> Str("Done.")]))
    [] s = "{\"type\": \"reply\"}" ->
         Ret(Dict([type |-> Str("reply")]))
    [] s = "{\"type\": \"tool_call\", \"tool\": \"google_calendar.list_events\", \"params\": {\"days\": \"1\"}}" ->
         Ret(Dict([type |-> Str("tool_call"), tool |-> Str("google_calendar.list_events"),
                   params |-> Dict([days |-> Str("1")])]))
    [] s = "{\"type\": \"tool_call\", \"tool\": \"google_calendar.list_events\", \"params\": {\"days\": \"soon\"}}" ->
         Ret(Dict([type |-> Str("tool_call"), tool |-> Str("google_calendar.list_events"),
                   params |-> Dict([days |-> Str("soon")])]))
    [] s = "{\"type\": \"tool_call\", \"tool\": \"gmail.get_email\", \"params\": null, \"confirm\": true}" ->
         Ret(Dict([type |-> Str("tool_call"), tool |-> Str("gmail.get_email"),
                   params |-> None, confirm |-> Bool(TRUE)]))
    [] s = "{\"type\": \"tool_call\", \"tool\": \"ghost.do_thing\", \"params\": {}}" ->
         Ret(Dict([type |-> Str("tool_call"), tool |-> Str("ghost.do_thing"),
                   params |-> EmptyDict]))
    [] s = "{\"type\": \"reply\", \"text\": null}" ->
         Ret(Dict([type |-> Str("reply"), text |-> None]))
    [] s = "{\"type\": \"tool_call\", \"tool\": \"gmail.send_email\", \"params\": {}}" ->
         Ret(Dict([type |-> Str("tool_call"), tool |-> Str("gmail.send_email"),
                   params |-> EmptyDict]))
    [] s = "{\"type\": \"tool_call\", \"tool\": \"search\", \"params\": {}}" ->
         Ret(Dict([type |-> Str("tool_call"), tool |-> Str("search"),
                   params |-> EmptyDict]))
    [] s = "{\"type\": \"tool_call\", \"params\": {}}" ->
         Ret(Dict([type |-> Str("tool_call"), params |-> EmptyDict]))
    [] s = "{\"type\": \"summary\", \"text\": \"hi\"}" ->
         Ret(Dict([type |-> Str("summary"), text |-> Str("hi")]))
    [] s = "{\"type\": 7}" -> Ret(Dict([type |-> Num(7)]))
    [] s = "[1, 2]" -> Ret(List(<<Num(1), Num(2)>>))
    [] s = "42" -> Ret(Num(42))
    [] s = "\"hello\"" -> Ret(Str("hello"))
    [] s = "null" -> Ret(None)
    [] s = "{\"type\": \"reply\", \"text\": \"You have" ->
         Raise("JSONDecodeError",
               <<"Unterminated string starting at: line 1 column 27 (char 26)">>)
    [] OTHER ->
         Raise("JSONDecodeError", <<"Expecting value: line 1 column 1 (char 0)">>)

(***************************************************************************)
(* Response interpreter: Orchestrator._handle_model_response               *)
(***************************************************************************)
\* data.get(key, default) that gives None for a missing key
DictGet_NoDefault(d, key, default) == IF key \in DOMAIN d.v THEN d.v[key] ELSE None

\* dict.get(key, default)
DictGet(d, key, default) == IF key \in DOMAIN d.v THEN d.v[key] ELSE default

\* the parse error left uncaught
OnJSONDecodeError_Propagate(e) == e

\* except json.JSONDecodeError as e: the diagnostic reply
OnJSONDecodeError(e) ==
  Ret([action |-> "reply",
       text |-> FStr(<<"Invalid JSON response from model: ">> \o e.val.v
                       \o <<". Please try again.">>)])

\* the reply branch reading the wrong key
HandleReply_WrongKey(data) ==
  [action |-> "reply", text |-> DictGet(data, "content", Str(""))]

\* rtype == "reply"
HandleReply(data) ==
  [action |-> "reply", text |-> DictGet(data, "text", Str(""))]

\* the unknown-tool reply without the list of registered names
UnknownToolReply_NoNames(tool_name, tools) ==
  [action |-> "reply",
   text |-> FStr(<<"Error: Unknown tool '">> \o StrOf(tool_name) \o <<"'.">>)]

\* the reply for a tool that is not a key of _tool_mapping
UnknownToolReply(tool_name, tools) ==
  [action |-> "reply",
   text |-> FStr(<<"Error: Unknown tool '">> \o StrOf(tool_name)
                   \o <<"'. Available tools: ">> \o Join(", ", ToolNames(tools)))]

\* the tool_call branch without the registry check
HandleToolCall_NoRegistryCheck(data, tools) ==
  LET tool_name == DictGet(data, "tool", Str("")) IN
  IF Falsy(tool_name)
  THEN [action |-> "reply", text |-> Str("Error: No tool specified in tool call")]
  ELSE [action |-> "tool_call", tool |-> tool_name,
        params |-> DictGet(data, "params", EmptyDict),
        confirm |-> DictGet(data, "confirm", Bool(FALSE))]

\* the tool_call branch passing no params on
HandleToolCall_NoParams(data, tools) ==
  LET tool_name == DictGet(data, "tool", Str("")) IN
  IF Falsy(tool_name)
  THEN [action |-> "reply", text |-> Str("Error: No tool specified in tool call")]
  ELSE IF ~ InDict(tool_name, ToolMapping(tools))
  THEN UnknownToolReply(tool_name, tools)
  ELSE [action |-> "tool_call", tool |-> tool_name,
        params |-> EmptyDict,
        confirm |-> DictGet(data, "confirm", Bool(FALSE))]

\* rtype == "tool_call"
HandleToolCall(data, tools) ==
  LET tool_name == DictGet(data, "tool", Str("")) IN
  IF Falsy(tool_name)
  THEN [action |-> "reply", text |-> Str("Error: No tool specified in tool call")]
  ELSE IF ~ InDict(tool_name, ToolMapping(tools))
  THEN UnknownToolReply(tool_name, tools)
  ELSE [action |-> "tool_call", tool |-> tool_name,
        params |-> DictGet(data, "params", EmptyDict),
        confirm |-> DictGet(data, "confirm", Bool(FALSE))]

InvalidTypeReply(rtype) ==
  [action |-> "reply",
   text |-> FStr(<<"Error: Invalid response type '">> \o rtype.v
                   \o <<"'. Expected 'reply' or 'tool_call'.">>)]

\* data.get / .lower() raise AttributeError on a value that has no such method
NoAttribute(x, attr) ==
  Raise("AttributeError", <<"'", x.py, "' object has no attribute '", attr, "'">>)

\* lines 142-175: what the interpreter makes of the parsed value
HandleData(data, tools) ==
  IF data.py # "dict" THEN NoAttribute(data, "get")
  ELSE LET type == DictGet(data, "type", Str("")) IN
    IF type.py # "str" THEN NoAttribute(type, "lower")
    ELSE LET rtype == Lower(type) IN
      IF rtype = Str("reply") THEN Ret(HandleReply(data))
      ELSE IF rtype = Str("tool_call") THEN Ret(HandleToolCall(data, tools))
      ELSE Ret(InvalidTypeReply(rtype))

_handle_model_response(response, tools) ==
  LET parsed == json_loads(response) IN
  IF parsed.status = "raise" THEN OnJSONDecodeError(parsed)
  ELSE HandleData(parsed.val, tools)

(***************************************************************************)
(* Adapters (omni_chat/adapters): classes, operations and their declared   *)
(* parameters, as inspect.signature reports them for the bound method.     *)
(***************************************************************************)
\* inspect.Parameter.empty
Empty == [py |-> "_empty", v |-> <<>>]

Param(name, kind, default) == [name |-> name, kind |-> kind, default |-> default]

\* class name -> operation name -> parameters
AdapterClasses ==
  [GmailAdapter |->
     [list_emails |-> << Param("max_results", "POSITIONAL_OR_KEYWORD", Num(10)),
                         Param("label_ids", "POSITIONAL_OR_KEYWORD", None) >>,
      get_email |-> << Param("email_id", "POSITIONAL_OR_KEYWORD", Empty) >>],
   CalendarAdapter |->
     [list_events |-> << Param("days", "POSITIONAL_OR_KEYWORD", Str("7")) >>]]

\* omni_chat.adapters.<adapter_name>_adapter: the classes each module defines
AdapterModules ==
  [gmail |-> {"GmailAdapter"}, google_calendar |-> {"CalendarAdapter"}]

\* int(x) succeeds
IsIntLiteral(x) ==
  \/ x.py = "int"
  \/ x.py = "str" /\ x.v \in {<<"1">>, <<"7">>}

\* the operation itself, called with keyword arguments kwargs
Invoke(class, method_name, kwargs) ==
  CASE class = "CalendarAdapter" /\ method_name = "list_events" ->
         IF IsIntLiteral(kwargs["days"]) THEN Ret(List(<<>>))
         ELSE IF kwargs["days"].py = "str"
         THEN Raise("ValueError", <<"invalid literal for int() with base 10: '">>
                                     \o kwargs["days"].v \o <<"'">>)
         ELSE Raise("TypeError", <<"int() argument must be a string, a bytes-like object or a real number, not '",
                                   kwargs["days"].py, "'">>)
    [] class = "GmailAdapter" /\ method_name = "list_emails" -> Ret(List(<<>>))
    [] class = "GmailAdapter" /\ method_name = "get_email" ->
         Ret(Dict([id |-> kwargs["email_id"]]))
    [] OTHER -> Raise("AttributeError", <<"no such operation">>)

\* adapter_class(): the constructor reads the OAuth credentials
Construct(class, credentials) ==
  IF credentials THEN Ret(class)
  ELSE Raise("FileNotFoundError",
             <<"[Errno 2] No such file or directory: 'credentials.json'">>)

(***************************************************************************)
(* Tool dispatcher: Orchestrator._load_adapter_class and _execute_tool     *)
(***************************************************************************)
\* the class, or "" for None
_load_adapter_class(adapter_name) ==
  IF adapter_name \notin DOMAIN AdapterRows THEN ""
  ELSE LET class_name == AdapterRows[adapter_name] IN
    IF adapter_name \in DOMAIN AdapterModules /\ class_name \in AdapterModules[adapter_name]
    THEN class_name ELSE ""

\* tool_name.split('.')[-1] for the registered names
MethodName(tool_name) ==
  CASE tool_name = "gmail.list_emails" -> "list_emails"
    [] tool_name = "gmail.get_email" -> "get_email"
    [] tool_name = "google_calendar.list_events" -> "list_events"
    [] tool_name = "gmail.send_email" -> "send_email"
    [] OTHER -> tool_name

\* param_name in params
\* a membership test that never finds the name
ParamIn_Never(param_name, params) ==
  IF params.py = "dict" THEN Ret(FALSE)
  ELSE IF params.py = "list" THEN Ret(FALSE)
  ELSE Raise("TypeError", <<"argument of type '", params.py, "' is not iterable">>)

ParamIn(param_name, params) ==
  IF params.py = "dict" THEN Ret(param_name \in DOMAIN params.v)
  ELSE IF params.py = "list" THEN Ret(FALSE)
  ELSE Raise("TypeError", <<"argument of type '", params.py, "' is not iterable">>)

\* the binding loop over sig.parameters, from the i-th parameter on:
\* "bound" with the keyword arguments, "return" with an error value, or "raise"
RECURSIVE BindParams(_, _, _, _)
BindParams(sig, i, params, valid_params) ==
  IF i > Len(sig) THEN [status |-> "bound", cls |-> "", val |-> valid_params]
  ELSE LET param == sig[i]
           isin == ParamIn(param.name, params) IN
    IF isin.status = "raise" THEN isin
    ELSE IF isin.val
    THEN BindParams(sig, i + 1, params, (param.name :> params.v[param.name]) @@ valid_params)
    ELSE IF param.default # Empty
    THEN BindParams(sig, i + 1, params, (param.name :> param.default) @@ valid_params)
    ELSE IF param.kind = "VAR_POSITIONAL"
    THEN BindParams(sig, i + 1, params, valid_params)
    ELSE IF param.kind = "VAR_KEYWORD"
    THEN [status |-> "bound", cls |-> "", val |-> params.v @@ valid_params]
    ELSE Ret(Dict([error |-> FStr(<<"Missing required parameter: ", param.name>>)]))

\* the outcome of a dispatch: what _execute_tool returns or raises, the cache
\* it leaves, the adapters whose constructor ran, the operations invoked
DispatchOutcome_Retry(out, cache, constructed, invoked) ==
  [out |-> out, cache |-> cache, constructed |-> constructed,
   invoked |-> IF out.status = "raise" THEN invoked \o invoked ELSE invoked]

DispatchOutcome(out, cache, constructed, invoked) ==
  [out |-> out, cache |-> cache, constructed |-> constructed, invoked |-> invoked]

\* the body that stores the adapter before constructing it
ExecuteBody_CacheOnFailure(tool_name, params, adapter_name, cache, credentials) ==
  LET class == IF adapter_name \in DOMAIN cache THEN cache[adapter_name]
               ELSE _load_adapter_class(adapter_name)
      built == IF adapter_name \in DOMAIN cache THEN Ret(cache[adapter_name])
               ELSE Construct(class, credentials)
      newcache == (adapter_name :> class) @@ cache
      made == IF adapter_name \in DOMAIN cache THEN <<>> ELSE <<adapter_name>>
      method_name == MethodName(tool_name.v[1])
  IN
  IF class = ""
  THEN DispatchOutcome(
         Ret(Dict([error |-> FStr(<<"Could not load adapter: ", adapter_name>>)])),
         cache, <<>>, <<>>)
  ELSE IF built.status = "raise"
  THEN DispatchOutcome(built, newcache, made, <<>>)
  ELSE IF method_name \notin DOMAIN AdapterClasses[class]
  THEN DispatchOutcome(
         Ret(Dict([error |-> FStr(<<"Adapter '", adapter_name, "' has no method '",
                                    method_name, "'">>)])),
         newcache, made, <<>>)
  ELSE LET bound == BindParams(AdapterClasses[class][method_name], 1, params, <<>>) IN
    IF bound.status # "bound"
    THEN DispatchOutcome(bound, newcache, made, <<>>)
    ELSE DispatchOutcome(Invoke(class, method_name, bound.val), newcache, made,
                         << [method |-> method_name, kwargs |-> bound.val] >>)

\* the body of the try block, lines 185-223
ExecuteBody(tool_name, params, adapter_name, cache, credentials) ==
  LET class == IF adapter_name \in DOMAIN cache THEN cache[adapter_name]
               ELSE _load_adapter_class(adapter_name)
      built == IF adapter_name \in DOMAIN cache THEN Ret(cache[adapter_name])
               ELSE Construct(class, credentials)
      newcache == (adapter_name :> class) @@ cache
      made == IF adapter_name \in DOMAIN cache THEN <<>> ELSE <<adapter_name>>
      method_name == MethodName(tool_name.v[1])
  IN
  IF class = ""
  THEN DispatchOutcome(
         Ret(Dict([error |-> FStr(<<"Could not load adapter: ", adapter_name>>)])),
         cache, <<>>, <<>>)
  ELSE IF built.status = "raise"
  THEN DispatchOutcome(built, cache, made, <<>>)
  ELSE IF method_name \notin DOMAIN AdapterClasses[class]
  THEN DispatchOutcome(
         Ret(Dict([error |-> FStr(<<"Adapter '", adapter_name, "' has no method '",
                                    method_name, "'">>)])),
         newcache, made, <<>>)
  ELSE LET bound == BindParams(AdapterClasses[class][method_name], 1, params, <<>>) IN
    IF bound.status # "bound"
    THEN DispatchOutcome(bound, newcache, made, <<>>)
    ELSE DispatchOutcome(Invoke(class, method_name, bound.val), newcache, made,
                         << [method |-> method_name, kwargs |-> bound.val] >>)

\* except Exception as e, lines 225-231
OnToolException(e, tool_name, params) ==
  Ret(Dict([error |-> e.val, exception_type |-> Str(e.cls),
            tool |-> tool_name, params |-> params]))

\* the dispatcher without its except clause
_execute_tool_NoCatch(tool_name, params, tools, cache, credentials) ==
  IF ~ InDict(tool_name, ToolMapping(tools))
  THEN DispatchOutcome(
         Ret(Dict([error |-> FStr(<<"Unknown tool: ">> \o StrOf(tool_name))])),
         cache, <<>>, <<>>)
  ELSE ExecuteBody(tool_name, params, ToolMapping(tools)[tool_name.v[1]].adapter,
                   cache, credentials)

_execute_tool(tool_name, params, tools, cache, credentials) ==
  IF ~ InDict(tool_name, ToolMapping(tools))
  THEN DispatchOutcome(
         Ret(Dict([error |-> FStr(<<"Unknown tool: ">> \o StrOf(tool_name))])),
         cache, <<>>, <<>>)
  ELSE LET tool_info == ToolMapping(tools)[tool_name.v[1]]
           body == ExecuteBody(tool_name, params, tool_info.adapter, cache, credentials)
       IN
    IF body.out.status = "raise"
    THEN [body EXCEPT !.out = OnToolException(body.out, tool_name, params)]
    ELSE body

(***************************************************************************)
(* MemoryDB: the adapters and tools tables, register_adapter, register_tool *)
(* and ToolAdapter.register                                                *)
(***************************************************************************)
\* a table with an INTEGER PRIMARY KEY AUTOINCREMENT id: its rows in rowid
\* order and the largest id given out
EmptyTable == [rows |-> <<>>, seq |-> 0]

\* INSERT OR REPLACE: the row with the same key is deleted and a new one inserted
InsertOrIgnore_Replace(table, row, key) ==
  [rows |-> Append(SelectSeq(table.rows, LAMBDA r : r[key] # row[key]),
                   [row EXCEPT !.id = table.seq + 1]),
   seq |-> table.seq + 1]

\* INSERT OR IGNORE under the UNIQUE constraint on the key column
InsertOrIgnore(table, row, key) ==
  IF \E i \in DOMAIN table.rows : table.rows[i][key] = row[key] THEN table
  ELSE [rows |-> Append(table.rows, [row EXCEPT !.id = table.seq + 1]),
        seq |-> table.seq + 1]

\* SELECT id ... WHERE key = value, then cursor.fetchone()[0]
SelectId(table, key, value) ==
  IF \E i \in DOMAIN table.rows : table.rows[i][key] = value
  THEN Ret(Num((table.rows[CHOOSE i \in DOMAIN table.rows : table.rows[i][key] = value]).id))
  ELSE Raise("TypeError", <<"'NoneType' object is not subscriptable">>)

AdapterRow(name, class_name, description) ==
  [id |-> 0, name |-> name, class_name |-> class_name, description |-> description]

ToolRow(adapter_id, name, full_name, short_desc, example, side_effects) ==
  [id |-> 0, adapter_id |-> adapter_id, name |-> name, full_name |-> full_name,
   short_desc |-> short_desc, example |-> example, side_effects |-> side_effects]

\* the tables after the call and what the call returns
register_adapter(d, name, class_name, description) ==
  LET adapters == InsertOrIgnore(d.adapters, AdapterRow(name, class_name, description), "name")
  IN [db |-> [d EXCEPT !.adapters = adapters], out |-> SelectId(adapters, "name", name)]

\* str(n) of a row id
IdText(n) == <<"1", "2", "3", "4", "5", "6", "7", "8", "9">>[n]

\* full_name, or f"{adapter_id}.{name}" when it is None
FullName(adapter_id, name, full_name) ==
  IF full_name = None THEN <<IdText(adapter_id), ".", name>> ELSE full_name.v

register_tool(d, adapter_id, name, short_desc, example, side_effects, full_name) ==
  LET fn == FullName(adapter_id, name, full_name)
      tooltab == InsertOrIgnore(d.tools,
                   ToolRow(adapter_id, name, fn, short_desc, example, side_effects),
                   "full_name")
  IN [db |-> [d EXCEPT !.tools = tooltab], out |-> SelectId(tooltab, "full_name", fn)]

\* one entry of the call log
Call(op, key, fields, out) == [op |-> op, key |-> key, fields |-> fields, out |-> out]

\* the adapter objects: self.name, the class, self.description, self.tools
AdapterObjects ==
  { [name |-> "gmail", class_name |-> "GmailAdapter",
     description |-> "Gmail integration for reading and managing emails",
     tools |-> << [name |-> "list_emails", description |-> "List recent emails in your inbox",
                   example |-> "", side_effects |-> FALSE],
                  [name |-> "get_email", description |-> "Get the full content of a specific email",
                   example |-> "", side_effects |-> FALSE] >>],
    [name |-> "google_calendar", class_name |-> "CalendarAdapter",
     description |-> "Google Calendar integration for managing events",
     tools |-> << [name |-> "list_events",
                   description |-> "List upcoming events from Google Calendar",
                   example |-> "{'days': 7}", side_effects |-> FALSE] >>] }

\* the loop of ToolAdapter.register over self.tools, from the i-th tool on
RECURSIVE RegisterTools(_, _, _, _, _)
RegisterTools(d, log, adapter_id, adapter, i) ==
  IF i > Len(adapter.tools) THEN [db |-> d, log |-> log]
  ELSE LET tool == adapter.tools[i]
           fn == <<adapter.name, ".", tool.name>>
           r == register_tool(d, adapter_id, tool.name, tool.description, tool.example,
                              tool.side_effects, FStr(fn))
       IN RegisterTools(r.db,
            Append(log, Call("register_tool", fn,
                             ToolRow(adapter_id, tool.name, fn, tool.description,
                                     tool.example, tool.side_effects), r.out)),
            adapter_id, adapter, i + 1)

\* ToolAdapter.register(db)
register(d, log, adapter) ==
  LET r == register_adapter(d, adapter.name, adapter.class_name, adapter.description)
  IN RegisterTools(r.db,
       Append(log, Call("register_adapter", <<adapter.name>>,
                        AdapterRow(adapter.name, adapter.class_name, adapter.description),
                        r.out)),
       r.out.val.v[1], adapter, 1)

(***************************************************************************)
(* MemoryDB: the messages table, add_message and get_recent_messages       *)
(***************************************************************************)
\* the row of an INSERT that succeeded; the clock of STRFTIME('now') has
\* advanced since the row before
MessageRow(rows, role, content) ==
  [id |-> Len(rows) + 1, role |-> Str(role), content |-> content,
   timestamp |-> Len(rows) + 1]

\* an INSERT that is never committed
add_message_NoCommit(rows, role, content) ==
  [rows |-> rows, out |-> Ret(Num(Len(rows) + 1))]

\* the table after the call and what the call returns or raises: content is
\* TEXT NOT NULL, and sqlite3 binds str, int and None only
add_message(rows, role, content) ==
  CASE content.py = "str" ->
         [rows |-> Append(rows, MessageRow(rows, role, content)),
          out |-> Ret(Num(Len(rows) + 1))]
    [] content.py = "int" ->
         [rows |-> Append(rows, MessageRow(rows, role, FStr(StrOf(content)))),
          out |-> Ret(Num(Len(rows) + 1))]
    [] content.py = "NoneType" ->
         [rows |-> rows,
          out |-> Raise("IntegrityError",
                        <<"NOT NULL constraint failed: messages.content">>)]
    [] OTHER ->
         [rows |-> rows,
          out |-> Raise("ProgrammingError",
                        <<"Error binding parameter 2: type '", content.py,
                          "' is not supported">>)]

\* ORDER BY timestamp DESC, id DESC
Later(r, q) == r.timestamp > q.timestamp \/ (r.timestamp = q.timestamp /\ r.id >= q.id)

\* the first limit rows of the set in that order
RECURSIVE OrderDescLimit(_, _)
OrderDescLimit(rowset, limit) ==
  IF rowset = {} \/ limit = 0 THEN <<>>
  ELSE LET m == CHOOSE r \in rowset : \A q \in rowset : Later(r, q)
       IN <<m>> \o OrderDescLimit(rowset \ {m}, limit - 1)

Reversed(s) == [i \in 1..Len(s) |-> s[Len(s) + 1 - i]]

MessageOf(row) ==
  [role |-> row.role, content |-> row.content, timestamp |-> Num(row.timestamp)]

\* the rows as fetched, newest first
get_recent_messages_NoReverse(rows, limit) ==
  LET fetched == OrderDescLimit({rows[i] : i \in DOMAIN rows}, limit)
  IN [i \in 1..Len(fetched) |-> MessageOf(fetched[i])]

get_recent_messages(rows, limit) ==
  LET fetched == Reversed(OrderDescLimit({rows[i] : i \in DOMAIN rows}, limit))
  IN [i \in 1..Len(fetched) |-> MessageOf(fetched[i])]

(***************************************************************************)
(* Orchestrator state and one call of process_message at a time.           *)
(***************************************************************************)
VARIABLES
  tools,        \* self.tools, loaded by __init__ / _load_tools
  tool_cache,   \* self._tool_cache: adapter name -> adapter instance (its class)
  pc,           \* "Idle", "AwaitingModel", "Interpreting", "Dispatching", "Done"
  context,      \* the list passed to process_message
  in_loop,      \* control is inside the while body (lines 109-125)
  count,        \* the round counter
  prompt,       \* the prompt last sent to the model client
  raw,          \* the text generate_response last returned
  response,     \* the action _handle_model_response last returned
  tool_result,  \* the value _execute_tool last returned
  result,       \* how process_message ended: Ret(text) or Raise(...)
  model_calls,  \* number of generate_response calls in this turn
  dispatched,   \* the _execute_tool calls of this turn, in order
  outputs,      \* the texts generate_response returned in this turn, in order
  history0,     \* the messages of context when process_message was called
  client,       \* the texts the model client can answer with
  store         \* the messages table of MemoryDB, in id order

\* one operation called through the binding loop of _execute_tool
VARIABLES
  op_sig,       \* the parameters the operation declares
  op_params,    \* the params supplied by the tool call
  op_bound,     \* the outcome of the binding loop
  op_calls,     \* the keyword arguments of each invocation of the operation
  op_received,  \* what the operation's parameters and slots received, per invocation
  op_out        \* what _execute_tool returns for the call

\* threads calling _execute_tool on one Orchestrator
VARIABLES
  th_pc,        \* thread -> the line of _execute_tool it is about to run
  th_tool,      \* thread -> tool_name
  th_made,      \* thread -> the instance its adapter_class() call returned, 0 if none
  th_adapter,   \* thread -> the local adapter of line 194, 0 if not yet read
  shared_cache, \* self._tool_cache as the threads see it: adapter name -> instance
  instances     \* the adapter instances constructed so far: instance -> adapter name

\* the catalog tables of one MemoryDB
VARIABLES
  db,           \* the adapters and tools tables
  calls         \* the register_adapter / register_tool calls made, with what they returned

\* the loop of ChatREPL.run
VARIABLES
  turns,        \* the inputs read so far
  turn_store    \* the messages table when the last input was read

\* one call of the interpreter on a parsed model output
VARIABLES
  data,         \* the value json.loads returned
  interpreted   \* what lines 142-175 return or raise for it

\* calls of build_prompt on one history and one tool list
VARIABLES
  p_messages,   \* the list passed as messages, as the caller holds it
  p_tools,      \* the list passed as tools, as the caller holds it
  p_outs        \* what each call returned or raised, in order

loopvars == <<tools, tool_cache, pc, context, in_loop, count, prompt, raw, response,
              tool_result, result, model_calls, dispatched, outputs, history0,
              client, store>>
bindvars == <<op_sig, op_params, op_bound, op_calls, op_received, op_out>>
concvars == <<th_pc, th_tool, th_made, th_adapter, shared_cache, instances>>
catvars == <<db, calls>>
replvars == <<turns, turn_store>>
interpvars == <<data, interpreted>>
promptvars == <<p_messages, p_tools, p_outs>>
aux == <<bindvars, concvars, catvars, replvars, interpvars, promptvars>>
vars == <<loopvars, aux>>

\* the round limit in the while condition
MaxRounds == 3

NoPrompt == [system |-> "", tools |-> <<>>, messages |-> <<>>]
NoResponse == [action |-> ""]

\* messages a caller can put in the history; the last one has no 'role' key
UserMessage == [role |-> Str("user"), content |-> Str("What's on my calendar tomorrow?")]
NoRoleMessage == [content |-> Str("hi")]
Messages == {UserMessage, NoRoleMessage}

RECURSIVE SeqsUpTo(_, _)
SeqsUpTo(S, n) ==
  IF n = 0 THEN {<<>>}
  ELSE LET shorter == SeqsUpTo(S, n - 1) IN
    shorter \cup {Append(h, m) : h \in shorter, m \in S}

Histories == SeqsUpTo(Messages, MaxHistory)

\* the orchestrator after __init__, over a catalog and a model client
LoopStart(catalog, texts) ==
  /\ tools = catalog
  /\ client = texts
  /\ store = <<>>
  /\ history0 = <<>>
  /\ outputs = <<>>
  /\ tool_cache = <<>>
  /\ pc = "Idle"
  /\ context = <<>>
  /\ in_loop = FALSE
  /\ count = 0
  /\ prompt = NoPrompt
  /\ raw = ""
  /\ response = NoResponse
  /\ tool_result = None
  /\ result = Running
  /\ model_calls = 0
  /\ dispatched = <<>>

\* no operation is being bound
BindIdle ==
  /\ op_sig = <<>>
  /\ op_params = EmptyDict
  /\ op_bound = Running
  /\ op_calls = <<>>
  /\ op_received = <<>>
  /\ op_out = Running

\* no thread is inside _execute_tool
ConcIdle ==
  /\ th_pc = <<>>
  /\ th_tool = <<>>
  /\ th_made = <<>>
  /\ th_adapter = <<>>
  /\ shared_cache = <<>>
  /\ instances = <<>>

\* a MemoryDB after _init_db on a new file, before any registration
CatalogIdle ==
  /\ db = [adapters |-> EmptyTable, tools |-> EmptyTable]
  /\ calls = <<>>

\* the interpreter is not being called on its own
InterpIdle ==
  /\ data = None
  /\ interpreted = Running

\* build_prompt is not being called on its own
PromptIdle ==
  /\ p_messages = <<>>
  /\ p_tools = <<>>
  /\ p_outs = <<>>

\* no REPL is running
ReplIdle ==
  /\ turns = 0
  /\ turn_store = <<>>

Init ==
  /\ \E catalog \in Catalogs : LoopStart(catalog, GenerateResponses)
  /\ BindIdle
  /\ ConcIdle
  /\ CatalogIdle
  /\ ReplIdle
  /\ InterpIdle
  /\ PromptIdle

\* the handler returning the bare message of the exception
OnLoopException_Bare(e) == Ret(FStr(e.val.v))

\* except Exception as e: return f"Error processing request: {str(e)}"
OnLoopException(e) == Ret(FStr(<<"Error processing request: ">> \o e.val.v))

\* an exception raised at lines 100-101 or 122-123: caught only inside the try
PromptFailure(e, inside_loop) == IF inside_loop THEN OnLoopException(e) ELSE e

\* the loop test with the limit off by one
WhileCond_OffByOne(action, n) == action.action = "tool_call" /\ n <= MaxRounds

\* the loop test without the round limit
WhileCond_NoLimit(action, n) == action.action = "tool_call"

\* the while condition, line 108
WhileCond(action, n) == action.action = "tool_call" /\ n < MaxRounds

\* the return made to answer with an empty text when the action has none
ReturnText_ForcedReply(action) ==
  IF "text" \in DOMAIN action THEN Ret(action.text) ELSE Ret(Str(""))

\* return response["text"], line 127
ReturnText(action) ==
  IF "text" \in DOMAIN action THEN Ret(action.text)
  ELSE OnLoopException(Raise("KeyError", <<"'text'">>))

\* the entry without the test for an empty list
EnterProcessMessage_NoGuard(h) ==
  /\ context' = h
  /\ history0' = h
  /\ pc' = "AwaitingModel"
  /\ result' = Running
  /\ in_loop' = FALSE
  /\ count' = 0
  /\ prompt' = NoPrompt
  /\ raw' = ""
  /\ response' = NoResponse
  /\ tool_result' = None
  /\ model_calls' = 0
  /\ dispatched' = <<>>
  /\ outputs' = <<>>
  /\ UNCHANGED <<tools, tool_cache, client>>

\* the entry of process_message with the list h: lines 96-97
EnterProcessMessage(h) ==
  /\ context' = h
  /\ history0' = h
  /\ IF h = <<>>
     THEN /\ pc' = "Done"
          /\ result' = Ret(Str("Error: No context provided"))
     ELSE /\ pc' = "AwaitingModel"
          /\ result' = Running
  /\ in_loop' = FALSE
  /\ count' = 0
  /\ prompt' = NoPrompt
  /\ raw' = ""
  /\ response' = NoResponse
  /\ tool_result' = None
  /\ model_calls' = 0
  /\ dispatched' = <<>>
  /\ outputs' = <<>>
  /\ UNCHANGED <<tools, tool_cache, client>>

\* a caller other than the REPL calls process_message with some history
ProcessMessage ==
  /\ pc = "Idle"
  /\ \E h \in Histories : EnterProcessMessage(h)
  /\ UNCHANGED <<store, aux>>

\* build_prompt and generate_response: lines 100-101 and 122-123
AwaitModel ==
  /\ pc = "AwaitingModel"
  /\ LET built == build_prompt(context, tools) IN
     IF built.status = "raise"
     THEN /\ pc' = "Done"
          /\ result' = PromptFailure(built, in_loop)
          /\ UNCHANGED <<prompt, raw, model_calls, outputs>>
     ELSE /\ \E text \in client :
               /\ raw' = text
               /\ outputs' = Append(outputs, text)
          /\ prompt' = built.val
          /\ model_calls' = model_calls + 1
          /\ pc' = "Interpreting"
          /\ UNCHANGED result
  /\ UNCHANGED <<tools, tool_cache, context, in_loop, count, response, tool_result,
                 dispatched, history0, client, store, aux>>

\* _handle_model_response, the counter and the loop test: lines 104-108 and
\* 124-125, 108; on leaving the loop, the return of line 127
Interpret ==
  /\ pc = "Interpreting"
  /\ LET out == _handle_model_response(raw, tools)
         n == IF in_loop THEN count + 1 ELSE 0
     IN
     IF out.status = "raise"
     THEN /\ pc' = "Done"
          /\ result' = OnLoopException(out)
          /\ UNCHANGED <<response, count>>
     ELSE /\ response' = out.val
          /\ count' = n
          /\ IF WhileCond(out.val, n)
             THEN /\ pc' = "Dispatching"
                  /\ UNCHANGED result
             ELSE /\ pc' = "Done"
                  /\ result' = ReturnText(out.val)
  /\ UNCHANGED <<tools, tool_cache, context, in_loop, prompt, raw, tool_result,
                 model_calls, dispatched, outputs, history0, client, store, aux>>

\* the call message without the params
ToolCallMessage_NoParams(tool_name, params) ==
  [role |-> Str("assistant"), content |-> FStr(<<"Called ">> \o StrOf(tool_name))]

\* the two messages appended to context, lines 117-119
ToolCallMessage(tool_name, params) ==
  [role |-> Str("assistant"),
   content |-> FStr(<<"Called ">> \o StrOf(tool_name) \o <<" with params: ">>
                      \o StrOf(params))]
\* the result appended under the role of the user
ToolResultMessage_AsUser(value) == [role |-> Str("user"), content |-> FStr(StrOf(value))]
ToolResultMessage(value) == [role |-> Str("system"), content |-> FStr(StrOf(value))]

\* the dispatch made to hold back a tool with side effects until confirmed
Dispatch_ConfirmGated ==
  /\ pc = "Dispatching"
  /\ Len(dispatched) < MaxTrace
  /\ \E credentials \in BOOLEAN :
       LET tool_name == response.tool
           params == response.params
           gated == ToolMapping(tools)[tool_name.v[1]].side_effects
                      /\ response.confirm # Bool(TRUE)
           e == _execute_tool(tool_name, params, tools, tool_cache, credentials)
           d == IF gated
                THEN [out |-> Ret(Dict([error |-> Str("Confirmation required")])),
                      cache |-> tool_cache, constructed |-> <<>>, invoked |-> <<>>]
                ELSE [out |-> e.out, cache |-> e.cache, constructed |-> e.constructed,
                      invoked |-> e.invoked]
           entry == [tool |-> tool_name, params |-> params, cache |-> tool_cache,
                     credentials |-> credentials, out |-> d.out,
                     constructed |-> d.constructed, invoked |-> d.invoked]
       IN
       /\ dispatched' = Append(dispatched, entry)
       /\ tool_cache' = d.cache
       /\ in_loop' = TRUE
       /\ IF d.out.status = "raise"
          THEN /\ pc' = "Done"
               /\ result' = OnLoopException(d.out)
               /\ UNCHANGED <<context, tool_result>>
          ELSE /\ tool_result' = d.out.val
               /\ context' = context \o << ToolCallMessage(tool_name, params),
                                           ToolResultMessage(d.out.val) >>
               /\ pc' = "AwaitingModel"
               /\ UNCHANGED result
  /\ UNCHANGED <<tools, count, prompt, raw, response, model_calls, outputs,
                 history0, client, store, aux>>

\* _execute_tool and the appends: lines 109-119
Dispatch ==
  /\ pc = "Dispatching"
  /\ Len(dispatched) < MaxTrace
  /\ \E credentials \in BOOLEAN :
       LET tool_name == response.tool
           params == response.params
           d == _execute_tool(tool_name, params, tools, tool_cache, credentials)
           entry == [tool |-> tool_name, params |-> params, cache |-> tool_cache,
                     credentials |-> credentials, out |-> d.out,
                     constructed |-> d.constructed, invoked |-> d.invoked]
       IN
       /\ dispatched' = Append(dispatched, entry)
       /\ tool_cache' = d.cache
       /\ in_loop' = TRUE
       /\ IF d.out.status = "raise"
          THEN /\ pc' = "Done"
               /\ result' = OnLoopException(d.out)
               /\ UNCHANGED <<context, tool_result>>
          ELSE /\ tool_result' = d.out.val
               /\ context' = context \o << ToolCallMessage(tool_name, params),
                                           ToolResultMessage(d.out.val) >>
               /\ pc' = "AwaitingModel"
               /\ UNCHANGED result
  /\ UNCHANGED <<tools, count, prompt, raw, response, model_calls, outputs,
                 history0, client, store, aux>>

\* the caller has the value (or the exception) and may call again
ReturnToCaller ==
  /\ pc = "Done"
  /\ pc' = "Idle"
  /\ UNCHANGED <<tools, tool_cache, context, in_loop, count, prompt, raw, response,
                 tool_result, result, model_calls, dispatched, outputs, history0,
                 client, store, aux>>

Next == ProcessMessage \/ AwaitModel \/ Interpret \/ Dispatch \/ ReturnToCaller

Spec == Init /\ [][Next]_vars

\* a running call takes its next step: the code is sequential and each model
\* call and tool invocation returns
FairSpec == Spec /\ WF_vars(AwaitModel \/ Interpret \/ Dispatch)

(***************************************************************************)
(* The binding loop of _execute_tool (lines 208-222) over the signatures   *)
(* inspect.signature can report: one operation, called once.               *)
(***************************************************************************)
\* the parameter names and the argument values of the calls
ParamNames == {"a", "b", "c"}
ArgValues == {Num(1), Str("x")}
DefaultOfB == Num(7)

\* def op(self, a, b=7) / def op(self, a, b=7, **kwargs) / def op(self, *args, b=7)
OpSignatures ==
  { << Param("a", "POSITIONAL_OR_KEYWORD", Empty),
       Param("b", "POSITIONAL_OR_KEYWORD", DefaultOfB) >>,
    << Param("a", "POSITIONAL_OR_KEYWORD", Empty),
       Param("b", "POSITIONAL_OR_KEYWORD", DefaultOfB),
       Param("kwargs", "VAR_KEYWORD", Empty) >>,
    << Param("args", "VAR_POSITIONAL", Empty),
       Param("b", "KEYWORD_ONLY", DefaultOfB) >> }

\* the names of the slots *args and **kwargs, which a tool call may use as keys
SlotNames == {"args", "kwargs"}

\* the params of a tool call: a JSON object over the names, or null
SuppliedParams ==
  {None} \cup UNION { {Dict(f) : f \in [names -> ArgValues]} :
                      names \in SUBSET (ParamNames \cup SlotNames) }

\* the tool name under which the operation is dispatched
OpTool == Str("fixture.op")

\* the parameters of sig that take one argument by keyword
NamedParams(sig) ==
  {sig[i].name : i \in {j \in DOMAIN sig :
                          sig[j].kind \in {"POSITIONAL_OR_KEYWORD", "KEYWORD_ONLY"}}}
HasVarKeyword(sig) == \E i \in DOMAIN sig : sig[i].kind = "VAR_KEYWORD"
DefaultOfIn(sig, name) == sig[CHOOSE i \in DOMAIN sig : sig[i].name = name].default

\* method(**kwargs), line 222: Python binds each keyword to the parameter of
\* that name, the others to the **kwargs slot, and raises TypeError for a
\* keyword nothing takes or a parameter left without a value
CallWithKeywords(sig, kwargs) ==
  LET named == NamedParams(sig)
      unmatched == DOMAIN kwargs \ named
      unfilled == {n \in named : n \notin DOMAIN kwargs /\ DefaultOfIn(sig, n) = Empty}
  IN
  IF unmatched # {} /\ ~ HasVarKeyword(sig)
  THEN Raise("TypeError", <<"op() got an unexpected keyword argument '",
                            CHOOSE n \in unmatched : TRUE, "'">>)
  ELSE IF unfilled # {}
  THEN Raise("TypeError", <<"op() missing 1 required positional argument: '",
                            CHOOSE n \in unfilled : TRUE, "'">>)
  ELSE Ret([named |-> [n \in named |->
                         IF n \in DOMAIN kwargs THEN kwargs[n] ELSE DefaultOfIn(sig, n)],
            extra |-> [n \in unmatched |-> kwargs[n]]])

\* the operation returns what it received
OpResult(received) ==
  Dict([named |-> Dict(received.named), extra |-> Dict(received.extra)])

LoopIdle == LoopStart(get_tools, GenerateResponses)

BindInit ==
  /\ LoopIdle
  /\ op_sig \in OpSignatures
  /\ op_params \in SuppliedParams
  /\ op_bound = Running
  /\ op_calls = <<>>
  /\ op_received = <<>>
  /\ op_out = Running
  /\ ConcIdle
  /\ CatalogIdle
  /\ ReplIdle
  /\ InterpIdle
  /\ PromptIdle

\* the call made with every supplied param, declared or not
BindAndInvoke_PassAll ==
  /\ op_bound = Running
  /\ op_bound' = BindParams(op_sig, 1, op_params, <<>>)
  /\ op_calls' = IF op_bound'.status = "bound" THEN Append(op_calls, op_bound'.val)
                 ELSE op_calls
  /\ LET bound == BindParams(op_sig, 1, op_params, <<>>)
         called == CallWithKeywords(op_sig, bound.val @@ op_params.v)
     IN
     IF bound.status = "return"
     THEN op_received' = op_received /\ op_out' = bound
     ELSE IF bound.status = "raise"
     THEN op_received' = op_received /\ op_out' = OnToolException(bound, OpTool, op_params)
     ELSE IF called.status = "raise"
     THEN op_received' = op_received /\ op_out' = OnToolException(called, OpTool, op_params)
     ELSE /\ op_received' = Append(op_received, called.val)
          /\ op_out' = Ret(OpResult(called.val))
  /\ UNCHANGED <<op_sig, op_params, loopvars, concvars, catvars, replvars, interpvars, promptvars>>

\* lines 208-231: bind, then method(**valid_params) when the loop completes;
\* the result is returned, an exception becomes the error value
BindAndInvoke ==
  /\ op_bound = Running
  /\ op_bound' = BindParams(op_sig, 1, op_params, <<>>)
  /\ op_calls' = IF op_bound'.status = "bound" THEN Append(op_calls, op_bound'.val)
                 ELSE op_calls
  /\ LET bound == BindParams(op_sig, 1, op_params, <<>>)
         called == CallWithKeywords(op_sig, bound.val)
     IN
     IF bound.status = "return"
     THEN op_received' = op_received /\ op_out' = bound
     ELSE IF bound.status = "raise"
     THEN op_received' = op_received /\ op_out' = OnToolException(bound, OpTool, op_params)
     ELSE IF called.status = "raise"
     THEN op_received' = op_received /\ op_out' = OnToolException(called, OpTool, op_params)
     ELSE /\ op_received' = Append(op_received, called.val)
          /\ op_out' = Ret(OpResult(called.val))
  /\ UNCHANGED <<op_sig, op_params, loopvars, concvars, catvars, replvars, interpvars, promptvars>>

BindNext == BindAndInvoke
BindSpec == BindInit /\ [][BindNext]_vars

(***************************************************************************)
(* Concurrent turns on one Orchestrator: each thread is in _execute_tool   *)
(* for a registered tool; the steps are the statements of lines 186-194,   *)
(* between which the interpreter can switch threads (no lock is taken).    *)
(***************************************************************************)
NumThreads == 2
Threads == 1..NumThreads

AdapterOf(tool_name) == ToolMapping(get_tools)[tool_name].adapter

ConcInit ==
  /\ LoopIdle
  /\ BindIdle
  /\ CatalogIdle
  /\ ReplIdle
  /\ InterpIdle
  /\ PromptIdle
  /\ th_pc = [t \in Threads |-> "CheckCache"]
  /\ th_tool \in [Threads -> DOMAIN ToolMapping(get_tools)]
  /\ th_made = [t \in Threads |-> 0]
  /\ th_adapter = [t \in Threads |-> 0]
  /\ shared_cache = <<>>
  /\ instances = <<>>

\* line 186: if adapter_name not in self._tool_cache
CheckCache(t) ==
  /\ th_pc[t] = "CheckCache"
  /\ th_pc' = [th_pc EXCEPT ![t] =
        IF AdapterOf(th_tool[t]) \in DOMAIN shared_cache THEN "ReadCache" ELSE "Construct"]
  /\ UNCHANGED <<th_tool, th_made, th_adapter, shared_cache, instances, loopvars, bindvars, catvars, replvars, interpvars, promptvars>>

\* lines 187-192, right-hand side: adapter_class()
ConstructAdapter(t) ==
  /\ th_pc[t] = "Construct"
  /\ instances' = Append(instances, AdapterOf(th_tool[t]))
  /\ th_made' = [th_made EXCEPT ![t] = Len(instances) + 1]
  /\ th_pc' = [th_pc EXCEPT ![t] = "StoreCache"]
  /\ UNCHANGED <<th_tool, th_adapter, shared_cache, loopvars, bindvars, catvars, replvars, interpvars, promptvars>>

\* line 192, the assignment: self._tool_cache[adapter_name] = ...
StoreCache(t) ==
  /\ th_pc[t] = "StoreCache"
  /\ shared_cache' = (AdapterOf(th_tool[t]) :> th_made[t]) @@ shared_cache
  /\ th_pc' = [th_pc EXCEPT ![t] = "ReadCache"]
  /\ UNCHANGED <<th_tool, th_made, th_adapter, instances, loopvars, bindvars, catvars, replvars, interpvars, promptvars>>

\* line 194: adapter = self._tool_cache[adapter_name]
ReadCache(t) ==
  /\ th_pc[t] = "ReadCache"
  /\ th_adapter' = [th_adapter EXCEPT ![t] = shared_cache[AdapterOf(th_tool[t])]]
  /\ th_pc' = [th_pc EXCEPT ![t] = "Invoke"]
  /\ UNCHANGED <<th_tool, th_made, shared_cache, instances, loopvars, bindvars, catvars, replvars, interpvars, promptvars>>

ConcNext ==
  \E t \in Threads :
    CheckCache(t) \/ ConstructAdapter(t) \/ StoreCache(t) \/ ReadCache(t)
ConcSpec == ConcInit /\ [][ConcNext]_vars

(***************************************************************************)
(* Registration: any sequence of register_adapter, register_tool and       *)
(* ToolAdapter.register calls on one MemoryDB.                             *)
(***************************************************************************)
MaxCalls == 3

AdapterNameInputs == {"gmail", "google_calendar"}
ClassNameInputs == {"GmailAdapter", "CalendarAdapter"}
AdapterIdInputs == {1, 2}
ShortDescInputs == {"List recent emails in your inbox", "List emails"}
FullNameInputs ==
  {None, FStr(<<"gmail", ".", "list_emails">>), FStr(<<"1", ".", "list_emails">>)}

CatalogInit ==
  /\ LoopIdle
  /\ BindIdle
  /\ ConcIdle
  /\ CatalogIdle
  /\ ReplIdle
  /\ InterpIdle
  /\ PromptIdle

RegisterAdapterCall ==
  /\ Len(calls) < MaxCalls
  /\ \E name \in AdapterNameInputs, class_name \in ClassNameInputs :
       LET r == register_adapter(db, name, class_name, "") IN
       /\ db' = r.db
       /\ calls' = Append(calls, Call("register_adapter", <<name>>,
                                      AdapterRow(name, class_name, ""), r.out))
  /\ UNCHANGED <<loopvars, bindvars, concvars, replvars, interpvars, promptvars>>

RegisterToolCall ==
  /\ Len(calls) < MaxCalls
  /\ \E adapter_id \in AdapterIdInputs, short_desc \in ShortDescInputs,
        full_name \in FullNameInputs :
       LET r == register_tool(db, adapter_id, "list_emails", short_desc, "", FALSE, full_name)
           fn == FullName(adapter_id, "list_emails", full_name) IN
       /\ db' = r.db
       /\ calls' = Append(calls, Call("register_tool", fn,
                                      ToolRow(adapter_id, "list_emails", fn, short_desc,
                                              "", FALSE), r.out))
  /\ UNCHANGED <<loopvars, bindvars, concvars, replvars, interpvars, promptvars>>

RegisterObject ==
  /\ Len(calls) < MaxCalls
  /\ \E adapter \in AdapterObjects :
       LET r == register(db, calls, adapter) IN
       /\ db' = r.db
       /\ calls' = r.log
  /\ UNCHANGED <<loopvars, bindvars, concvars, replvars, interpvars, promptvars>>

CatalogNext == RegisterAdapterCall \/ RegisterToolCall \/ RegisterObject
CatalogSpec == CatalogInit /\ [][CatalogNext]_vars

(***************************************************************************)
(* ChatREPL.run: the messages table is cleared, then each turn stores the  *)
(* input, calls process_message on the recent messages and stores the      *)
(* response.                                                               *)
(***************************************************************************)
MaxTurns == 2
memory_limit == 5

UserInputs == {"What's on my calendar tomorrow?", "hi"}

\* what the model answers in a REPL session: a reply, a tool call, a reply
\* whose text is null, and JSON that is not an object
ReplTexts ==
  { "{\"type\": \"reply\", \"text\": \"You have no events tomorrow.\"}",
    "{\"type\": \"tool_call\", \"tool\": \"google_calendar.list_events\", \"params\": {\"days\": \"1\"}}",
    "{\"type\": \"reply\", \"text\": null}",
    "[1, 2]" }

get_chat_context(rows) == get_recent_messages(rows, memory_limit * 2)

ReplInit ==
  /\ LoopStart(get_tools, ReplTexts)
  /\ BindIdle
  /\ ConcIdle
  /\ CatalogIdle
  /\ ReplIdle
  /\ InterpIdle
  /\ PromptIdle

\* lines 35-52: a non-empty input other than exit is stored, the context is
\* fetched and process_message is entered
ReplInput ==
  /\ pc = "Idle"
  /\ turns < MaxTurns
  /\ \E user_input \in UserInputs :
       LET added == add_message(store, "user", Str(user_input)) IN
       /\ store' = added.rows
       /\ EnterProcessMessage(get_chat_context(added.rows))
  /\ turn_store' = store
  /\ turns' = turns + 1
  /\ UNCHANGED <<bindvars, concvars, catvars, interpvars, promptvars>>

\* lines 55-56: the response is stored; an exception of process_message or of
\* add_message is printed by the handler of lines 64-66 and the loop goes on
ReplStore ==
  /\ pc = "Done"
  /\ pc' = "Idle"
  /\ store' = IF result.status = "return"
              THEN add_message(store, "assistant", result.val).rows
              ELSE store
  /\ UNCHANGED <<tools, tool_cache, context, in_loop, count, prompt, raw, response,
                 tool_result, result, model_calls, dispatched, outputs, history0,
                 client, aux>>

ReplNext == ReplInput \/ AwaitModel \/ Interpret \/ Dispatch \/ ReplStore
ReplSpec == ReplInit /\ [][ReplNext]_vars

(***************************************************************************)
(* The interpreter after the parse (lines 142-175), called once on a JSON  *)
(* value, over either catalog.                                             *)
(***************************************************************************)
\* a field that is absent or has one of the values
Opt(key, values) == {<<>>} \cup {key :> v : v \in values}

TypeInputs ==
  {Str("reply"), Str("REPLY"), Str("Reply"), Str("tool_call"), Str("TOOL_CALL"),
   Str("Tool_Call"), Str("summary"), Str(""), Num(7), None}
ToolInputs ==
  {Str(""), None, Str("gmail.get_email"), Str("gmail.send_email"), Str("ghost.do_thing")}
ParamsInputs == {EmptyDict, Dict([days |-> Str("1")]), None}
ConfirmInputs == {Bool(TRUE), Bool(FALSE)}
TextInputs == {Str("You have no events tomorrow.")}

\* the values json.loads can return: objects over the fields the interpreter
\* reads, and values that are not objects
DataInputs ==
  {List(<<>>), Num(42), None} \cup
  {Dict(type @@ tool @@ params @@ confirm @@ text) :
     type \in Opt("type", TypeInputs), tool \in Opt("tool", ToolInputs),
     params \in Opt("params", ParamsInputs), confirm \in Opt("confirm", ConfirmInputs),
     text \in Opt("text", TextInputs)}

InterpInit ==
  /\ \E catalog \in Catalogs : LoopStart(catalog, GenerateResponses)
  /\ BindIdle
  /\ ConcIdle
  /\ CatalogIdle
  /\ ReplIdle
  /\ PromptIdle
  /\ data \in DataInputs
  /\ interpreted = Running

\* lines 142-175
InterpretData ==
  /\ interpreted = Running
  /\ interpreted' = HandleData(data, tools)
  /\ UNCHANGED <<data, loopvars, bindvars, concvars, catvars, replvars, promptvars>>

InterpNext == InterpretData
InterpSpec == InterpInit /\ [][InterpNext]_vars

(***************************************************************************)
(* One Orchestrator over a catalog store that goes on being written: the   *)
(* registry is read from the store by __init__ (lines 77 and 82-85), and   *)
(* an adapter's register(db) can run at any time afterwards.               *)
(***************************************************************************)
MaxLate == 1

\* the text of a TEXT column held as fragments
RECURSIVE Concat(_)
Concat(fragments) ==
  IF fragments = <<>> THEN "" ELSE Head(fragments) \o Concat(Tail(fragments))

\* MemoryDB.get_tools: SELECT ... FROM tools t JOIN adapters a ON
\* t.adapter_id = a.id, one dict per row
SelectTools(d) ==
  LET Joined(t) == \E i \in DOMAIN d.adapters.rows : d.adapters.rows[i].id = t.adapter_id
      AdapterOfRow(t) ==
        d.adapters.rows[CHOOSE i \in DOMAIN d.adapters.rows :
                          d.adapters.rows[i].id = t.adapter_id]
      rows == SelectSeq(d.tools.rows, Joined)
  IN [i \in DOMAIN rows |->
        [name |-> Concat(rows[i].full_name), description |-> rows[i].short_desc,
         example |-> rows[i].example, side_effects |-> rows[i].side_effects,
         adapter |-> AdapterOfRow(rows[i]).name]]

\* the store after the adapters have registered themselves, in either order
EmptyStore == [adapters |-> EmptyTable, tools |-> EmptyTable]
StartupStores ==
  {register(register(EmptyStore, <<>>, p[1]).db, <<>>, p[2]).db :
     p \in {q \in AdapterObjects \X AdapterObjects : q[1] # q[2]}}

\* a tool added to the Gmail adapter after the orchestrator was constructed
LateTool ==
  [name |-> "send_email", description |-> "Send an email", example |-> "",
   side_effects |-> TRUE]
LateFullName == <<"gmail", ".", "send_email">>

RegistryInit ==
  /\ \E s \in StartupStores :
       /\ LoopStart(SelectTools(s), GenerateResponses)
       /\ db = s
  /\ calls = <<>>
  /\ BindIdle
  /\ ConcIdle
  /\ ReplIdle
  /\ InterpIdle
  /\ PromptIdle

\* register_tool that also reloads the registry of the running orchestrator
RegisterLate_Reload ==
  /\ Len(calls) < MaxLate
  /\ LET adapter_id == SelectId(db.adapters, "name", "gmail").val.v[1]
         r == register_tool(db, adapter_id, LateTool.name, LateTool.description,
                            LateTool.example, LateTool.side_effects, FStr(LateFullName))
     IN
     /\ db' = r.db
     /\ calls' = Append(calls, Call("register_tool", LateFullName,
                                    ToolRow(adapter_id, LateTool.name, LateFullName,
                                            LateTool.description, LateTool.example,
                                            LateTool.side_effects), r.out))
     /\ tools' = SelectTools(r.db)
  /\ UNCHANGED <<tool_cache, pc, context, in_loop, count, prompt, raw, response,
                 tool_result, result, model_calls, dispatched, outputs, history0,
                 client, store, bindvars, concvars, replvars, interpvars, promptvars>>

\* db.register_tool for the new tool (tool_adapter.py line 42): the store
\* changes, the orchestrator is not told
RegisterLate ==
  /\ Len(calls) < MaxLate
  /\ LET adapter_id == SelectId(db.adapters, "name", "gmail").val.v[1]
         r == register_tool(db, adapter_id, LateTool.name, LateTool.description,
                            LateTool.example, LateTool.side_effects, FStr(LateFullName))
     IN
     /\ db' = r.db
     /\ calls' = Append(calls, Call("register_tool", LateFullName,
                                    ToolRow(adapter_id, LateTool.name, LateFullName,
                                            LateTool.description, LateTool.example,
                                            LateTool.side_effects), r.out))
     /\ tools' = tools
  /\ UNCHANGED <<tool_cache, pc, context, in_loop, count, prompt, raw, response,
                 tool_result, result, model_calls, dispatched, outputs, history0,
                 client, store, bindvars, concvars, replvars, interpvars, promptvars>>

RegistryNext ==
  ProcessMessage \/ AwaitModel \/ Interpret \/ Dispatch \/ ReturnToCaller \/ RegisterLate

RegistrySpec == RegistryInit /\ [][RegistryNext]_vars

(***************************************************************************)
(* build_prompt called on its own: the caller keeps the two lists it       *)
(* passes and calls again with them, the clock going on between the calls. *)
(***************************************************************************)
MaxPromptHistory == 2
MaxPromptCalls == 2
MaxClock == 2

\* messages as the REPL and other callers pass them: with a timestamp, with
\* a capitalised role and a content that is not a str, and without a role
PromptMessages ==
  Messages \cup
  { [role |-> Str("assistant"), content |-> Str("Done."), timestamp |-> Num(1)],
    [role |-> Str("User"), content |-> Num(7)] }

\* tool lists: the two catalogs, no tool, and dicts without the optional keys
PromptTools ==
  Catalogs \cup
  { <<>>,
    << [name |-> "search"],
       [name |-> "gmail.get_email", description |-> "Get the full content of a specific email"] >> }

PromptInit ==
  /\ LoopIdle
  /\ BindIdle
  /\ ConcIdle
  /\ CatalogIdle
  /\ ReplIdle
  /\ InterpIdle
  /\ p_messages \in SeqsUpTo(PromptMessages, MaxPromptHistory)
  /\ p_tools \in PromptTools
  /\ p_outs = <<>>

\* a build_prompt that lower-cases the roles in the list it was given
BuildPromptCall_InPlace ==
  /\ Len(p_outs) < MaxPromptCalls
  /\ \E now \in 1..MaxClock :
       p_outs' = Append(p_outs, build_prompt_at(p_messages, p_tools, now))
  /\ p_messages' = [i \in DOMAIN p_messages |->
                      IF "role" \in DOMAIN p_messages[i]
                      THEN [p_messages[i] EXCEPT !.role = Lower(p_messages[i].role)]
                      ELSE p_messages[i]]
  /\ p_tools' = p_tools
  /\ UNCHANGED <<loopvars, bindvars, concvars, catvars, replvars, interpvars>>

\* lines 20-63: the comprehension and the loop build new lists of new dicts;
\* nothing is assigned to messages, to tools or to their elements
BuildPromptCall ==
  /\ Len(p_outs) < MaxPromptCalls
  /\ \E now \in 1..MaxClock :
       p_outs' = Append(p_outs, build_prompt_at(p_messages, p_tools, now))
  /\ p_messages' = p_messages
  /\ p_tools' = p_tools
  /\ UNCHANGED <<loopvars, bindvars, concvars, catvars, replvars, interpvars>>

PromptNext == BuildPromptCall
PromptSpec == PromptInit /\ [][PromptNext]_vars

(***************************************************************************)
(* Properties                                                              *)
(***************************************************************************)
Range(f) == {f[i] : i \in DOMAIN f}
Active == pc \in {"AwaitingModel", "Interpreting", "Dispatching"}
Registered(tool_name) == InDict(tool_name, ToolMapping(tools))
\* the value json.loads gives for a text, None if it raises
Parsed(text) == IF json_loads(text).status = "return" THEN json_loads(text).val ELSE None
\* the string returned by the outermost except clause
IsLoopFailure(r) ==
  r.status = "return" /\ r.val.py = "str" /\ r.val.v # <<>>
    /\ Head(r.val.v) = "Error processing request: "

\* C1: one call of process_message invokes _execute_tool at most 3 times,
\* whatever the model answers.
C1_AtMostThreeDispatches == Len(dispatched) <= 3

\* an endless stream of tool calls: three dispatched, the fourth still a tool call
C1_Witness ==
  /\ pc = "Done"
  /\ Len(dispatched) = 3
  /\ response.action = "tool_call"
  /\ model_calls = 4

\* C2: every call of process_message eventually ends, and once the model has
\* been called it ends by returning a value to the caller.
C2_EveryCallReturns ==
  /\ Active ~> (pc = "Done")
  /\ [](pc = "Done" /\ model_calls > 0 => result.status = "return")

\* a turn that ran three rounds and ended on a final answer
C2_Witness ==
  /\ pc = "Done"
  /\ result.status = "return"
  /\ count = 3
  /\ response.action = "reply"

\* C3: every tool name handed to _execute_tool is a key of _tool_mapping, and
\* the action being dispatched is a tool call the interpreter accepted.
C3_DispatchedToolsRegistered ==
  /\ \A i \in DOMAIN dispatched : Registered(dispatched[i].tool)
  /\ pc = "Dispatching" =>
       /\ response.action = "tool_call"
       /\ Registered(response.tool)
       /\ response.tool = Parsed(raw).v["tool"]

\* two different registered tools dispatched in one turn
C3_Witness ==
  \E i, j \in DOMAIN dispatched :
    /\ dispatched[i].tool = Str("google_calendar.list_events")
    /\ dispatched[j].tool = Str("gmail.get_email")

\* a model text of the exact shape {"type": "reply", "text": T}
WellFormedReply(text) ==
  /\ Parsed(text).py = "dict"
  /\ DOMAIN Parsed(text).v = {"type", "text"}
  /\ Parsed(text).v["type"] = Str("reply")
  /\ Parsed(text).v["text"].py = "str"

\* C4: a well-formed reply with text T is interpreted as Reply{T}; the call
\* returns exactly T at once, with no further model call or dispatch.
C4_ReplyReturnedExactly ==
  [][ /\ (pc = "Interpreting" /\ WellFormedReply(raw)) =>
           /\ pc' = "Done"
           /\ response' = [action |-> "reply", text |-> Parsed(raw).v["text"]]
           /\ result' = Ret(Parsed(raw).v["text"])
           /\ model_calls' = model_calls
           /\ dispatched' = dispatched
      /\ pc = "Done" =>
           /\ pc' = "Idle"
           /\ result' = result
           /\ model_calls' = model_calls
           /\ dispatched' = dispatched ]_vars

\* the reply arrived after three dispatch rounds and was returned as it is
C4_Witness ==
  /\ pc = "Done"
  /\ WellFormedReply(raw)
  /\ result = Ret(Str("You have no events tomorrow."))
  /\ Len(dispatched) = 3
  /\ model_calls = 4

\* a model text of type tool_call naming a tool that is not registered
UnregisteredToolCall(text) ==
  /\ Parsed(text).py = "dict"
  /\ "type" \in DOMAIN Parsed(text).v
  /\ Parsed(text).v["type"] = Str("tool_call")
  /\ "tool" \in DOMAIN Parsed(text).v
  /\ ~ Falsy(Parsed(text).v["tool"])
  /\ ~ Registered(Parsed(text).v["tool"])

\* C5: a tool call for an unregistered tool becomes a Reply whose text lists
\* every registered tool name; the turn ends with that text, nothing is
\* dispatched and no adapter is constructed.
C5_UnknownToolReplies ==
  [][ (pc = "Interpreting" /\ UnregisteredToolCall(raw)) =>
        /\ pc' = "Done"
        /\ response'.action = "reply"
        /\ result' = Ret(response'.text)
        /\ \A name \in DOMAIN ToolMapping(tools) : name \in Range(response'.text.v)
        /\ dispatched' = dispatched
        /\ tool_cache' = tool_cache ]_vars

\* the unknown tool was asked for after a dispatch round
C5_Witness ==
  /\ pc = "Done"
  /\ UnregisteredToolCall(raw)
  /\ Len(dispatched) = 1
  /\ result.status = "return"
  /\ "gmail.get_email" \in Range(result.val.v)

\* C6: the interpreter returns an action, never raises, for every model text.
C6_InterpreterNeverRaises ==
  pc = "Interpreting" => _handle_model_response(raw, tools).status = "return"

\* a model text json.loads rejects
NotJSON(text) == json_loads(text).status = "raise"

\* C7: a text that is not JSON is interpreted, without raising, as a Reply that
\* carries a diagnostic; the turn ends returning it and nothing is dispatched.
C7_MalformedJSONReplies ==
  [][ (pc = "Interpreting" /\ NotJSON(raw)) =>
        /\ _handle_model_response(raw, tools).status = "return"
        /\ pc' = "Done"
        /\ response'.action = "reply"
        /\ Head(response'.text.v) = "Invalid JSON response from model: "
        /\ result' = Ret(response'.text)
        /\ dispatched' = dispatched
        /\ tool_cache' = tool_cache ]_vars

\* the model client failed after a dispatch round and its error text came back
C7_Witness ==
  /\ pc = "Done"
  /\ raw = ClientErrorText
  /\ Len(dispatched) = 1
  /\ result.status = "return"
  /\ Head(result.val.v) = "Invalid JSON response from model: "

\* C8: no exception of process_message reaches the caller; the call returns
\* the "Error processing request: <message>" string instead.
C8_NoExceptionEscapes ==
  pc = "Done" => result.status = "return"

\* C9: a tool call interpreted when the counter has reached 3 is not
\* dispatched and the turn ends in Done with a reply text, not with the
\* string of the outermost exception handler.
C9_ExhaustedForcesReply ==
  (pc = "Done" /\ count = 3 /\ response.action = "tool_call") =>
     /\ Len(dispatched) = 3
     /\ result.status = "return"
     /\ ~ IsLoopFailure(result)

\* what went wrong inside a dispatch d, told from its inputs
ConstructionRaised(d) ==
  /\ ToolMapping(tools)[d.tool.v[1]].adapter \notin DOMAIN d.cache
  /\ _load_adapter_class(ToolMapping(tools)[d.tool.v[1]].adapter) # ""
  /\ ~ d.credentials
BindingRaised(d) ==
  /\ ~ ConstructionRaised(d)
  /\ d.params.py = "NoneType"
OperationRaised(d) ==
  /\ d.invoked # <<>>
  /\ d.invoked[1].method = "list_events"
  /\ d.invoked[1].kwargs["days"] = Str("soon")
\* the error value of lines 226-231
StructuredError(d, class) ==
  /\ d.out.val.py = "dict"
  /\ DOMAIN d.out.val.v = {"error", "exception_type", "tool", "params"}
  /\ d.out.val.v["error"].py = "str"
  /\ d.out.val.v["exception_type"] = Str(class)
  /\ d.out.val.v["tool"] = d.tool
  /\ d.out.val.v["params"] = d.params

\* C10: _execute_tool never raises; when adapter construction, parameter
\* binding or the operation raises, it returns an error value holding the
\* message, the exception's class name, the tool name and the params.
C10_DispatcherNeverRaises ==
  \A i \in DOMAIN dispatched :
    LET d == dispatched[i] IN
    /\ d.out.status = "return"
    /\ ConstructionRaised(d) => StructuredError(d, "FileNotFoundError")
    /\ BindingRaised(d) => StructuredError(d, "TypeError")
    /\ OperationRaised(d) => StructuredError(d, "ValueError")

\* one turn in which the constructor, the binding and the operation each raised
C10_Witness ==
  /\ Len(dispatched) = 3
  /\ \E i, j, k \in DOMAIN dispatched :
       /\ ConstructionRaised(dispatched[i])
       /\ BindingRaised(dispatched[j])
       /\ OperationRaised(dispatched[k])

\* C11: for an operation declaring a (required) and b (defaulted), a call with
\* a and without b invokes the operation once with the supplied a and the
\* default of b; a call with a and b invokes it with both supplied values; a
\* call without a returns {"error": "Missing required parameter: a"} and the
\* operation is not invoked.
RequiredThenDefaulted ==
  /\ Len(op_sig) >= 2
  /\ op_sig[1] = Param("a", "POSITIONAL_OR_KEYWORD", Empty)
  /\ op_sig[2] = Param("b", "POSITIONAL_OR_KEYWORD", DefaultOfB)
  /\ op_params.py = "dict"
Supplied(name) == name \in DOMAIN op_params.v
C11_BindingContract ==
  (op_bound # Running /\ RequiredThenDefaulted) =>
    IF Supplied("a")
    THEN /\ op_bound.status = "bound"
         /\ Len(op_calls) = 1
         /\ op_calls[1]["a"] = op_params.v["a"]
         /\ op_calls[1]["b"] = IF Supplied("b") THEN op_params.v["b"] ELSE DefaultOfB
    ELSE /\ op_bound = Ret(Dict([error |-> FStr(<<"Missing required parameter: ", "a">>)]))
         /\ op_calls = <<>>
C11_Witness ==
  /\ RequiredThenDefaulted
  /\ Len(op_sig) = 2
  /\ op_params = Dict([a |-> Str("x")])
  /\ op_calls = << [a |-> Str("x"), b |-> DefaultOfB] >>

\* C12: when concurrent turns dispatch, for the first time, tools of the same
\* adapter, no two instances of that adapter are constructed, and every turn
\* uses the cached instance.
C12_AdapterConstructedOnce ==
  /\ \A i, j \in DOMAIN instances : instances[i] = instances[j] => i = j
  /\ \A t \in DOMAIN th_pc :
       th_pc[t] = "Invoke" => th_adapter[t] = shared_cache[AdapterOf(th_tool[t])]

\* C13: after any sequence of register_adapter and register_tool calls the
\* adapters table has exactly one row per registered name and the tools table
\* exactly one row per registered full_name; every call returns the id the
\* first call with the same name (full_name) returned, and the stored row has
\* the fields of that first call.
TableOf(op) == IF op = "register_adapter" THEN db.adapters.rows ELSE db.tools.rows
KeyOf(op, row) == IF op = "register_adapter" THEN <<row.name>> ELSE row.full_name
RowsFor(call) ==
  {i \in DOMAIN TableOf(call.op) : KeyOf(call.op, TableOf(call.op)[i]) = call.key}
FirstCall(j) ==
  CHOOSE i \in DOMAIN calls :
    /\ calls[i].op = calls[j].op /\ calls[i].key = calls[j].key
    /\ \A h \in 1..(i - 1) : ~ (calls[h].op = calls[j].op /\ calls[h].key = calls[j].key)
C13_RegistrationIdempotent ==
  \A j \in DOMAIN calls :
    /\ Cardinality(RowsFor(calls[j])) = 1
    /\ \A i \in RowsFor(calls[j]) :
         LET row == TableOf(calls[j].op)[i] IN
         /\ calls[j].out = Ret(Num(row.id))
         /\ calls[FirstCall(j)].out = calls[j].out
         /\ [row EXCEPT !.id = 0] = calls[FirstCall(j)].fields
C13_Witness ==
  /\ Len(db.tools.rows) = 1
  /\ \E i, j \in DOMAIN calls :
       /\ i < j
       /\ calls[i].op = "register_tool" /\ calls[j].op = "register_tool"
       /\ calls[i].key = calls[j].key
       /\ calls[i].fields # calls[j].fields
       /\ calls[i].out = calls[j].out

\* a model text of type tool_call naming a registered tool
ValidToolCall(text) ==
  /\ Parsed(text).py = "dict"
  /\ "type" \in DOMAIN Parsed(text).v
  /\ Parsed(text).v["type"] = Str("tool_call")
  /\ "tool" \in DOMAIN Parsed(text).v
  /\ Registered(Parsed(text).v["tool"])
\* the params of a tool call text, {} when it has none
ParamsOf(text) ==
  IF "params" \in DOMAIN Parsed(text).v THEN Parsed(text).v["params"] ELSE EmptyDict
\* the model's outputs of this turn were k calls of registered tools and then
\* a well-formed reply
CallsThenReply(k) ==
  /\ Len(outputs) = k + 1
  /\ \A i \in 1..k : ValidToolCall(outputs[i])
  /\ WellFormedReply(outputs[k + 1])

\* C14: when the model emits k calls of registered tools (0 <= k <= 3) and
\* then a well-formed reply with text T, process_message ends with exactly k
\* dispatches, of the tools and params emitted and in that order, exactly
\* k + 1 model calls, and returns T; while rounds remain, a turn does not end
\* on a call of a registered tool.
C14_CallsThenReply ==
  /\ \A k \in 0..MaxRounds :
       (pc = "Done" /\ CallsThenReply(k)) =>
         /\ Len(dispatched) = k
         /\ \A i \in 1..k :
              /\ dispatched[i].tool = Parsed(outputs[i]).v["tool"]
              /\ dispatched[i].params = ParamsOf(outputs[i])
         /\ model_calls = k + 1
         /\ result = Ret(Parsed(outputs[k + 1]).v["text"])
  /\ (pc = "Done" /\ outputs # <<>> /\ Len(outputs) <= MaxRounds) =>
       \E i \in DOMAIN outputs : ~ ValidToolCall(outputs[i])

\* three calls of two different tools, then the reply
C14_Witness ==
  /\ pc = "Done"
  /\ CallsThenReply(3)
  /\ Parsed(outputs[1]).v["tool"] # Parsed(outputs[2]).v["tool"]
  /\ Parsed(outputs[2]).v["params"] # Parsed(outputs[3]).v["params"]
  /\ result = Ret(Str("You have no events tomorrow."))

\* the dispatch just made, in a step that made one
LastDispatch == dispatched'[Len(dispatched')]
AdapterNameOf(d) == ToolMapping(tools)[d.tool.v[1]].adapter
\* the three ways a dispatch d finds its tool unresolvable, told from its inputs
ClassUnresolvable(d) ==
  /\ AdapterNameOf(d) \notin DOMAIN d.cache
  /\ _load_adapter_class(AdapterNameOf(d)) = ""
OperationMissing(d) ==
  /\ ~ ClassUnresolvable(d)
  /\ ~ ConstructionRaised(d)
  /\ MethodName(d.tool.v[1]) \notin DOMAIN AdapterClasses[AdapterRows[AdapterNameOf(d)]]
Unresolvable(d) == ClassUnresolvable(d) \/ ConstructionRaised(d) \/ OperationMissing(d)
\* the dispatch returned an error value, invoked nothing, its call and its
\* result were appended as an assistant and a system message, and the loop
\* goes on to the next model call
ObservedByModel(d) ==
  /\ d.out.status = "return"
  /\ d.out.val.py = "dict"
  /\ "error" \in DOMAIN d.out.val.v
  /\ d.invoked = <<>>
  /\ context' = context \o
       << [role |-> Str("assistant"),
           content |-> FStr(<<"Called ">> \o StrOf(d.tool) \o <<" with params: ">>
                              \o StrOf(d.params))],
          [role |-> Str("system"), content |-> FStr(StrOf(d.out.val))] >>
  /\ pc' = "AwaitingModel"
\* inside the loop every prompt is followed by a model call
ModelQueriedAgain ==
  (pc = "AwaitingModel" /\ in_loop /\ pc' # pc) =>
    (pc' = "Interpreting" /\ model_calls' = model_calls + 1)

\* C15, as stated: a call of an unregistered tool, like a dispatch whose
\* adapter cannot be constructed or lacks the operation, is dispatched and
\* returned to the model as a system message while rounds remain.
C15_FailuresReturnedToModel ==
  [][ /\ (pc = "Interpreting" /\ UnregisteredToolCall(raw) /\ pc' # pc) =>
           pc' = "Dispatching"
      /\ (pc = "Dispatching" /\ dispatched' # dispatched /\ Unresolvable(LastDispatch)) =>
           ObservedByModel(LastDispatch)
      /\ ModelQueriedAgain ]_vars

\* C15, amended: a call of an unregistered tool ends the turn with a reply
\* that names the tool, nothing being appended and the model not being queried
\* again; a dispatch whose adapter class cannot be loaded, whose adapter
\* constructor raises or whose adapter lacks the operation returns an error
\* value that is appended as a system message, and the model is queried again.
C15_UnresolvableObservedUnknownReplied ==
  [][ /\ (pc = "Interpreting" /\ UnregisteredToolCall(raw) /\ pc' # pc) =>
           /\ pc' = "Done"
           /\ result'.status = "return"
           /\ result'.val.py = "str"
           /\ SubSeq(result'.val.v, 1, 1 + Len(StrOf(Parsed(raw).v["tool"]))) =
                <<"Error: Unknown tool '">> \o StrOf(Parsed(raw).v["tool"])
           /\ context' = context
           /\ model_calls' = model_calls
           /\ dispatched' = dispatched
      /\ (pc = "Dispatching" /\ dispatched' # dispatched /\ Unresolvable(LastDispatch)) =>
           ObservedByModel(LastDispatch)
      /\ ModelQueriedAgain ]_vars

\* one turn over the stale catalog: the constructor raised, the operation was
\* missing, the class could not be loaded, and the fourth output named an
\* unregistered tool
C15_Witness ==
  /\ pc = "Done"
  /\ Len(dispatched) = 3
  /\ \E i, j, k \in DOMAIN dispatched :
       /\ ConstructionRaised(dispatched[i])
       /\ OperationMissing(dispatched[j])
       /\ ClassUnresolvable(dispatched[k])
  /\ UnregisteredToolCall(raw)
  /\ model_calls = 4
  /\ Len(context) = Len(history0) + 6

\* a JSON object whose type is a string other than reply and tool_call
InvalidType(text) ==
  /\ Parsed(text).py = "dict"
  /\ "type" \in DOMAIN Parsed(text).v
  /\ Parsed(text).v["type"].py = "str"
  /\ Lower(Parsed(text).v["type"]) \notin {Str("reply"), Str("tool_call")}
\* the messages appended to the history since the call
Appended == SubSeq(context, Len(history0) + 1, Len(context))
\* the dispatches whose result is an error value
FailedDispatches ==
  {i \in DOMAIN dispatched :
     dispatched[i].out.val.py = "dict" /\ "error" \in DOMAIN dispatched[i].out.val.v}

\* C16: the i-th dispatch of a turn is the i-th output of the model, a tool
\* call, and invokes its operation at most once, so nothing is attempted again
\* unless the model asks again; an output that is not JSON or has an invalid
\* type is the last output of its turn and is returned as the final text; the
\* error of a failed dispatch is in exactly one system message.
C16_NoAutomaticRetries ==
  /\ Len(dispatched) <= Len(outputs)
  /\ \A i \in DOMAIN dispatched :
       /\ ValidToolCall(outputs[i])
       /\ dispatched[i].tool = Parsed(outputs[i]).v["tool"]
       /\ Len(dispatched[i].invoked) <= 1
  /\ \A i \in DOMAIN outputs :
       (NotJSON(outputs[i]) \/ InvalidType(outputs[i])) =>
         /\ i = Len(outputs)
         /\ pc = "Done" =>
              /\ result.status = "return"
              /\ result.val.py = "str"
              /\ Head(result.val.v) \in {"Invalid JSON response from model: ",
                                        "Error: Invalid response type '"}
  /\ Len(Appended) = 2 * Len(dispatched)
  /\ \A i \in FailedDispatches :
       {j \in DOMAIN Appended : Appended[j] = ToolResultMessage(dispatched[i].out.val)}
         = {2 * h : h \in {h \in DOMAIN dispatched : dispatched[h].out = dispatched[i].out}}

\* an operation that raised was invoked once, its error went to the model, and
\* the invalid output that followed ended the turn
C16_Witness ==
  /\ pc = "Done"
  /\ Len(dispatched) = 1
  /\ OperationRaised(dispatched[1])
  /\ Len(dispatched[1].invoked) = 1
  /\ InvalidType(outputs[2])
  /\ Len(outputs) = 2

\* C17: when process_message has returned, the history the caller passed has
\* the messages it had at the call, whatever number of rounds ran.
C17_CallerHistoryUnchanged == pc = "Done" => context = history0

\* the last row of a messages table
LastRow(rows) == rows[Len(rows)]
\* the response process_message returned can be stored
Storable == result.status = "return" /\ result.val.py = "str"

\* C18: while process_message runs the messages table does not change, and a
\* REPL turn whose three steps completed leaves the table it found followed
\* by exactly two rows, the user input and then the response, whatever number
\* of tool rounds ran.
C18_TurnStoresTwoMessages ==
  [][ /\ Active => store' = store
      /\ (pc = "Done" /\ pc' = "Idle" /\ Storable) =>
           /\ Len(store') = Len(turn_store) + 2
           /\ SubSeq(store', 1, Len(turn_store)) = turn_store
           /\ store'[Len(turn_store) + 1].role = Str("user")
           /\ store'[Len(turn_store) + 1].content = history0[Len(history0)].content
           /\ LastRow(store').role = Str("assistant")
           /\ LastRow(store').content = result.val ]_vars

\* a second turn that ran three tool rounds and stored the reply
C18_Witness ==
  /\ pc = "Idle"
  /\ turns = 2
  /\ Len(dispatched) = 3
  /\ Len(context) = Len(history0) + 6
  /\ Len(store) = 4
  /\ LastRow(store).content = Str("You have no events tomorrow.")

\* the row is the string of the outermost except clause, stored as a response
FailureRow(row) ==
  /\ row.role = Str("assistant")
  /\ Head(row.content.v) = "Error processing request: "
\* the messages get_recent_messages gives for a table, oldest first
RecentOf(rows) ==
  LET from == IF Len(rows) > 2 * memory_limit THEN Len(rows) - 2 * memory_limit + 1 ELSE 1
  IN [i \in 1..(Len(rows) - from + 1) |->
        [role |-> rows[from + i - 1].role, content |-> rows[from + i - 1].content,
         timestamp |-> Num(rows[from + i - 1].timestamp)]]

\* C19: after a turn that ended in the error string of the loop, the registry
\* is what it was, the next input is appended to the table and read back with
\* the recent messages, process_message starts again with the counter at 0 and
\* nothing dispatched, and a well-formed reply of the model in that turn is
\* returned as it is.
C19_UsableAfterLoopFailure ==
  /\ [](tools = get_tools)
  /\ []((pc = "Done" /\ turn_store # <<>> /\ FailureRow(LastRow(turn_store))
          /\ WellFormedReply(raw)) => result = Ret(Parsed(raw).v["text"]))
  /\ [][ (pc = "Idle" /\ store # <<>> /\ FailureRow(LastRow(store)) /\ pc' # pc) =>
            /\ Len(store') = Len(store) + 1
            /\ SubSeq(store', 1, Len(store)) = store
            /\ LastRow(store').role = Str("user")
            /\ context' = RecentOf(store')
            /\ pc' = "AwaitingModel"
            /\ count' = 0
            /\ in_loop' = FALSE
            /\ dispatched' = <<>>
            /\ model_calls' = 0 ]_vars

\* a turn whose rounds were exhausted, then a turn that returned a reply
C19_Witness ==
  /\ pc = "Idle"
  /\ Len(store) = 4
  /\ store[2].content = FStr(<<"Error processing request: ", "'text'">>)
  /\ store[4].role = Str("assistant")
  /\ store[4].content = Str("You have no events tomorrow.")

\* the messages the dispatches so far should have appended
RECURSIVE PairsOf(_)
PairsOf(ds) ==
  IF ds = <<>> THEN <<>>
  ELSE PairsOf(SubSeq(ds, 1, Len(ds) - 1)) \o
       << [role |-> Str("assistant"),
           content |-> FStr(<<"Called ">> \o StrOf(ds[Len(ds)].tool)
                              \o <<" with params: ">> \o StrOf(ds[Len(ds)].params))],
          [role |-> Str("system"), content |-> FStr(StrOf(ds[Len(ds)].out.val))] >>

\* C20: the working history is the initial history followed by one
\* (assistant, system) pair per dispatch, in dispatch order, the system
\* message carrying str(result); the counter follows the number of
\* dispatches; the prompt of model call k + 1 is built from that history
\* after k dispatches.
C20_HistoryGrowsByPairs ==
  /\ context = history0 \o PairsOf(dispatched)
  /\ count <= Len(dispatched) /\ Len(dispatched) <= count + 1
  /\ pc = "Dispatching" => count = Len(dispatched)
  /\ pc = "Interpreting" =>
       /\ model_calls = Len(dispatched) + 1
       /\ prompt = build_prompt(history0 \o PairsOf(dispatched), tools).val

\* the fourth model call of a turn, after three rounds with different results
C20_Witness ==
  /\ pc = "Interpreting"
  /\ Len(dispatched) = 3
  /\ model_calls = 4
  /\ history0 # <<>>
  /\ dispatched[1].out # dispatched[2].out
  /\ dispatched[2].out # dispatched[3].out

\* the case variants of the two type names
ReplyVariants == {Str("reply"), Str("REPLY"), Str("Reply")}
ToolCallVariants == {Str("tool_call"), Str("TOOL_CALL"), Str("Tool_Call")}
\* the value of a field of the object being interpreted, Str("") if absent
Field(key) == IF key \in DOMAIN data.v THEN data.v[key] ELSE Str("")
Has(key) == key \in DOMAIN data.v
Interpreted == interpreted # Running /\ data.py = "dict"

\* C23: a type that is a case variant of "reply" is handled as a reply and a
\* case variant of "tool_call" as a tool call; for every other type value, and
\* for an object without a type, the interpreter returns a reply whose text is
\* the invalid response type error, never a tool call.
C23_TypeComparedCaseInsensitively ==
  Interpreted =>
    IF Has("type") /\ data.v["type"] \in ReplyVariants
    THEN interpreted = Ret([action |-> "reply", text |-> Field("text")])
    ELSE IF Has("type") /\ data.v["type"] \in ToolCallVariants
    THEN /\ interpreted.status = "return"
         /\ \/ interpreted.val.action = "tool_call"
            \/ Head(interpreted.val.text.v) \in
                 {"Error: No tool specified in tool call", "Error: Unknown tool '"}
    ELSE /\ interpreted.status = "return"
         /\ interpreted.val.action = "reply"
         /\ Head(interpreted.val.text.v) = "Error: Invalid response type '"

\* C24: for an object of type tool_call, a missing or empty tool gives the
\* reply "Error: No tool specified in tool call"; a registered tool gives a
\* tool call with that tool, the given params or {} when there are none, and
\* the given confirm or False when there is none.
C24_ToolCallFields ==
  (Interpreted /\ Has("type") /\ data.v["type"] \in ToolCallVariants) =>
    /\ (~ Has("tool") \/ Falsy(data.v["tool"])) =>
         interpreted = Ret([action |-> "reply",
                            text |-> Str("Error: No tool specified in tool call")])
    /\ (Has("tool") /\ Registered(data.v["tool"])) =>
         interpreted = Ret([action |-> "tool_call", tool |-> data.v["tool"],
                            params |-> IF Has("params") THEN data.v["params"] ELSE EmptyDict,
                            confirm |-> IF Has("confirm") THEN data.v["confirm"]
                                        ELSE Bool(FALSE)])

\* a tool call in capitals that names a registered tool and nothing else
C24_Witness ==
  /\ data = Dict([type |-> Str("TOOL_CALL"), tool |-> Str("gmail.get_email")])
  /\ interpreted.status = "return"
  /\ interpreted.val.action = "tool_call"
  /\ interpreted.val.params = EmptyDict
  /\ interpreted.val.confirm = Bool(FALSE)

\* the model's output being interpreted is a call of a registered tool and
\* three dispatches were made in this turn
ExhaustedToolCall ==
  /\ pc = "Interpreting"
  /\ Len(dispatched) = MaxRounds
  /\ ValidToolCall(raw)

\* C21, as stated: a call of a registered tool interpreted after three
\* dispatches sends the loop on, to a dispatch or to another model call.
C21_ExhaustedReentersAwaitingModel ==
  [][ (ExhaustedToolCall /\ pc' # pc) => pc' \in {"Dispatching", "AwaitingModel"} ]_vars

\* C21, amended: a call of a registered tool interpreted after three
\* dispatches ends the turn: the while condition is false, the return of
\* response["text"] raises KeyError, the handler returns "Error processing
\* request: 'text'", nothing is dispatched and the model is not called again.
C21_ExhaustedEndsTurn ==
  /\ [][ (ExhaustedToolCall /\ pc' # pc) =>
           /\ pc' = "Done"
           /\ count' = MaxRounds
           /\ response'.action = "tool_call"
           /\ result' = Ret(FStr(<<"Error processing request: ", "'text'">>))
           /\ dispatched' = dispatched
           /\ context' = context ]_vars
  /\ [][ model_calls' # model_calls =>
           (pc = "AwaitingModel" /\ model_calls' = model_calls + 1
              /\ (Len(dispatched) = MaxRounds => count < MaxRounds))
           \/ (pc \in {"Idle", "Done"} /\ model_calls' = 0) ]_vars

\* the fourth output was a call of a registered tool and the turn is over
C21_Witness ==
  /\ pc = "Done"
  /\ count = MaxRounds
  /\ Len(dispatched) = MaxRounds
  /\ ValidToolCall(raw)
  /\ result = Ret(FStr(<<"Error processing request: ", "'text'">>))

\* C22: one call of process_message calls the model at most four times, once
\* at first and once after each of at most three dispatches; when the fourth
\* output is a call of a registered tool it is not dispatched and the value
\* returned begins with "Error processing request:", being neither a text of
\* the model nor the result of a tool.
C22_AtMostFourModelCalls ==
  /\ model_calls <= MaxRounds + 1
  /\ model_calls <= Len(dispatched) + 1
  /\ Len(dispatched) <= MaxRounds
  /\ (pc = "Done" /\ Len(outputs) = MaxRounds + 1 /\ ValidToolCall(outputs[MaxRounds + 1])) =>
       /\ Len(dispatched) = MaxRounds
       /\ \A i \in 1..MaxRounds : dispatched[i].tool = Parsed(outputs[i]).v["tool"]
       /\ result.status = "return"
       /\ result.val.py = "str"
       /\ result.val.v[1] = "Error processing request: "
       /\ \A i \in DOMAIN dispatched :
            dispatched[i].out.status = "return" => result.val # dispatched[i].out.val

\* four calls of registered tools, not all of the same tool, the fourth left
\* undispatched
C22_Witness ==
  /\ pc = "Done"
  /\ model_calls = MaxRounds + 1
  /\ \A i \in DOMAIN outputs : ValidToolCall(outputs[i])
  /\ outputs[1] # outputs[MaxRounds + 1]
  /\ Len(dispatched) = MaxRounds
  /\ IsLoopFailure(result)

\* the values the model may give to confirm, and leaving it out
ConfirmVariants == Opt("confirm", ConfirmInputs \cup {None, Str("yes")})
\* the parsed object d with its confirm field replaced
WithConfirm(d, c) == Dict(c @@ [k \in DOMAIN d.v \ {"confirm"} |-> d.v[k]])
\* an action without regard to its confirm field
ModuloConfirm(action) ==
  IF "confirm" \in DOMAIN action THEN [action EXCEPT !.confirm = Bool(FALSE)] ELSE action

\* C25: the confirm flag changes nothing but the confirm field of the action.
\* At an interpreting step, the same output with any other value of confirm
\* (or none) gives the same action but for that field, the same decision to
\* dispatch or to end, and the same returned value; at a dispatching step, the
\* tool dispatched, the params, the result, the operations invoked, the adapter
\* cache and the two messages appended are those of _execute_tool for the
\* action's tool and params, whatever confirm is and whether or not the tool
\* has side effects.
C25_ConfirmNotEnforced ==
  [][ /\ (pc = "Interpreting" /\ Parsed(raw).py = "dict" /\ pc' # pc) =>
           \A c \in ConfirmVariants :
             LET alt == HandleData(WithConfirm(Parsed(raw), c), tools) IN
             IF alt.status = "raise"
             THEN pc' = "Done" /\ result' = OnLoopException(alt)
             ELSE /\ ModuloConfirm(alt.val) = ModuloConfirm(response')
                  /\ (pc' = "Dispatching") = WhileCond(alt.val, count')
                  /\ (pc' = "Done") = ~ WhileCond(alt.val, count')
                  /\ pc' = "Done" => result' = ReturnText(alt.val)
      /\ (pc = "Dispatching" /\ pc' # pc) =>
           /\ Len(dispatched') = Len(dispatched) + 1
           /\ \E credentials \in BOOLEAN :
                LET d == _execute_tool(response.tool, response.params, tools,
                                       tool_cache, credentials) IN
                /\ LastDispatch.tool = response.tool
                /\ LastDispatch.params = response.params
                /\ LastDispatch.out = d.out
                /\ LastDispatch.invoked = d.invoked
                /\ LastDispatch.constructed = d.constructed
                /\ tool_cache' = d.cache
                /\ d.out.status = "return"
                /\ pc' = "AwaitingModel"
                /\ context' = context \o
                     << [role |-> Str("assistant"),
                         content |-> FStr(<<"Called ">> \o StrOf(response.tool)
                                            \o <<" with params: ">> \o StrOf(response.params))],
                        [role |-> Str("system"), content |-> FStr(StrOf(d.out.val))] >>
                /\ result' = result ]_vars

\* a tool with side effects was dispatched on an action whose confirm is false,
\* and its adapter was constructed for it
C25_Witness ==
  /\ pc = "AwaitingModel"
  /\ Len(dispatched) >= 1
  /\ ToolMapping(tools)[response.tool.v[1]].side_effects
  /\ response.confirm = Bool(FALSE)
  /\ dispatched[Len(dispatched)].tool = response.tool
  /\ dispatched[Len(dispatched)].constructed # <<>>

\* C26: a dispatch whose adapter class cannot be resolved or whose adapter
\* constructor raises returns an error value holding the message, the tool
\* name and the params it was given, and invokes no operation; the value is
\* returned, so that the loop appends it and calls the model again.
C26_ConstructionFailureStructured ==
  \A i \in DOMAIN dispatched :
    LET d == dispatched[i] IN
    (ClassUnresolvable(d) \/ ConstructionRaised(d)) =>
      /\ d.out.status = "return"
      /\ d.out.val.py = "dict"
      /\ {"error", "tool", "params"} \subseteq DOMAIN d.out.val.v
      /\ d.out.val.v["error"].py = "str"
      /\ d.out.val.v["tool"] = d.tool
      /\ d.out.val.v["params"] = d.params
      /\ d.invoked = <<>>

\* the names the operation declares, and what the call supplies beyond the
\* named ones
DeclaredNames == {op_sig[i].name : i \in DOMAIN op_sig}
Unmatched == DOMAIN op_params.v \ NamedParams(op_sig)
\* every named parameter without a default is supplied
RequiredSupplied ==
  \A n \in NamedParams(op_sig) : DefaultOfIn(op_sig, n) = Empty => Supplied(n)
\* each named parameter received its supplied value or its default
NamedReceived(received) ==
  /\ DOMAIN received.named = NamedParams(op_sig)
  /\ \A n \in NamedParams(op_sig) :
       received.named[n] = IF Supplied(n) THEN op_params.v[n] ELSE DefaultOfIn(op_sig, n)

\* C28: an operation that declares **kwargs, called with its required
\* parameters supplied, is invoked once; its **kwargs slot receives every
\* supplied param that no named parameter matched, and each named parameter
\* receives its supplied value or its default.
C28_CatchAllReceivesUnmatched ==
  (op_out # Running /\ op_params.py = "dict" /\ HasVarKeyword(op_sig) /\ RequiredSupplied) =>
    /\ Len(op_received) = 1
    /\ NamedReceived(op_received[1])
    /\ op_received[1].extra = [n \in Unmatched |-> op_params.v[n]]

\* C29: an operation that declares no **kwargs, called with its required
\* parameters supplied and with params under names it does not declare, is
\* invoked once with its named parameters only, each holding its supplied
\* value or its default, and the dispatcher returns what the operation
\* returned; the undeclared params reach neither the keyword arguments nor
\* the result.
C29_UndeclaredParamsDropped ==
  (op_out # Running /\ op_params.py = "dict" /\ ~ HasVarKeyword(op_sig)
     /\ RequiredSupplied /\ DOMAIN op_params.v \cap DeclaredNames \subseteq NamedParams(op_sig)) =>
    /\ Len(op_calls) = 1
    /\ DOMAIN op_calls[1] = NamedParams(op_sig)
    /\ Len(op_received) = 1
    /\ NamedReceived(op_received[1])
    /\ op_received[1].extra = <<>>
    /\ op_out = Ret(OpResult(op_received[1]))

\* def op(self, a, b=7) called with a and with two params it does not declare
C29_Witness ==
  /\ Len(op_sig) = 2
  /\ op_params = Dict([a |-> Num(1), c |-> Str("x"), kwargs |-> Num(1)])
  /\ op_received = << [named |-> [a |-> Num(1), b |-> DefaultOfB], extra |-> <<>>] >>
  /\ op_out.status = "return"
  /\ "error" \notin DOMAIN op_out.val.v

\* the names of the tools in the catalog store now
StoredNames == {SelectTools(db)[i].name : i \in DOMAIN SelectTools(db)}
\* a tool that is in the store and not in the registry
RegisteredLate(tool_name) ==
  /\ tool_name.py = "str"
  /\ Len(tool_name.v) = 1
  /\ tool_name.v[1] \in StoredNames
  /\ ~ Registered(tool_name)

\* C30: the registry is what get_tools gave when the orchestrator was
\* constructed and no step changes it, whether a step of process_message, of
\* the interpreter, of the dispatcher or a registration in the store; a call
\* of a tool registered in the store since then is answered by the
\* interpreter with the unknown-tool reply and not dispatched, and the
\* dispatcher too answers it with "Unknown tool".
C30_RegistryReadOnly ==
  /\ [](tools \in {SelectTools(s) : s \in StartupStores})
  /\ [][tools' = tools]_vars
  /\ [][ (pc = "Interpreting" /\ UnregisteredToolCall(raw)
            /\ RegisteredLate(Parsed(raw).v["tool"]) /\ pc' # pc) =>
           /\ pc' = "Done"
           /\ result' = Ret(UnknownToolReply(Parsed(raw).v["tool"], tools).text)
           /\ dispatched' = dispatched
           /\ tool_cache' = tool_cache ]_vars
  /\ [](\A name \in StoredNames :
          RegisteredLate(Str(name)) =>
            _execute_tool(Str(name), EmptyDict, tools, tool_cache, TRUE).out =
              Ret(Dict([error |-> FStr(<<"Unknown tool: ", name>>)])))

\* the tool was registered in the store, the model called it, and the turn
\* ended on the unknown-tool reply after one dispatch of a tool in the registry
C30_Witness ==
  /\ pc = "Done"
  /\ Len(calls) = 1
  /\ Len(SelectTools(db)) = Len(tools) + 1
  /\ RegisteredLate(Str("gmail.send_email"))
  /\ Len(dispatched) = 1
  /\ UnregisteredToolCall(raw)
  /\ Parsed(raw).v["tool"] = Str("gmail.send_email")
  /\ result = Ret(UnknownToolReply(Str("gmail.send_email"), tools).text)

\* a step that dispatched
Dispatched == pc = "Dispatching" /\ pc' # pc
\* the adapter of a dispatch has a class that can be loaded
Loadable(d) == _load_adapter_class(AdapterNameOf(d)) # ""

\* C27: the adapter cache starts empty and changes only in a dispatch, by the
\* one entry of the dispatched tool's adapter, which was not cached; an entry
\* is never removed or replaced; a dispatch constructs no adapter but its
\* tool's, and none when that adapter is cached; when the adapter is not
\* cached and its class loads, the constructor runs: if it succeeds the
\* adapter is cached, if it raises the cache is left as it was, so that the
\* next dispatch of that adapter runs the constructor again.
C27_LazyCachedAdapters ==
  /\ [](pc = "Idle" /\ model_calls = 0 /\ outputs = <<>> /\ history0 = <<>> /\ context = <<>>
          /\ result = Running => tool_cache = <<>>)
  /\ [][ \A a \in DOMAIN tool_cache :
           a \in DOMAIN tool_cache' /\ tool_cache'[a] = tool_cache[a] ]_vars
  /\ [][ tool_cache' # tool_cache =>
           /\ Dispatched
           /\ AdapterNameOf(LastDispatch) \notin DOMAIN tool_cache
           /\ DOMAIN tool_cache' = DOMAIN tool_cache \cup {AdapterNameOf(LastDispatch)}
           /\ LastDispatch.constructed = <<AdapterNameOf(LastDispatch)>>
           /\ LastDispatch.credentials ]_vars
  /\ [][ Dispatched =>
           LET d == LastDispatch
               a == AdapterNameOf(d) IN
           /\ d.cache = tool_cache
           /\ a \in DOMAIN tool_cache => (d.constructed = <<>> /\ tool_cache' = tool_cache)
           /\ (a \notin DOMAIN tool_cache /\ ~ Loadable(d)) =>
                (d.constructed = <<>> /\ tool_cache' = tool_cache)
           /\ (a \notin DOMAIN tool_cache /\ Loadable(d)) =>
                /\ d.constructed = <<a>>
                /\ d.credentials => a \in DOMAIN tool_cache'
                /\ ~ d.credentials => tool_cache' = tool_cache ]_vars

\* one turn: the constructor raised, the next dispatch of the same adapter
\* constructed it, the third used the cached adapter
C27_Witness ==
  /\ Len(dispatched) = 3
  /\ AdapterNameOf(dispatched[1]) = AdapterNameOf(dispatched[2])
  /\ AdapterNameOf(dispatched[2]) = AdapterNameOf(dispatched[3])
  /\ ConstructionRaised(dispatched[1])
  /\ dispatched[1].constructed # <<>>
  /\ dispatched[2].cache = <<>>
  /\ dispatched[2].constructed # <<>>
  /\ dispatched[2].credentials
  /\ dispatched[3].constructed = <<>>
  /\ DOMAIN tool_cache = {AdapterNameOf(dispatched[3])}

\* an outcome of build_prompt without regard to current_time
ModuloTime(out) ==
  IF out.status = "return" THEN Ret([out.val EXCEPT !.current_time = 0]) ELSE out

\* C31: a call of build_prompt leaves the history and the tool list as they
\* were; two calls with the same inputs give outcomes that differ at most in
\* current_time; a returned prompt has one entry per message, in order, with
\* the role lower-cased and str(content) as text and nothing else, and one
\* entry per tool, in order, under the tool's name.
C31_BuildPromptPure ==
  /\ [][p_messages' = p_messages /\ p_tools' = p_tools]_vars
  /\ [](\A i, j \in DOMAIN p_outs : ModuloTime(p_outs[i]) = ModuloTime(p_outs[j]))
  /\ [](\A k \in DOMAIN p_outs :
          p_outs[k].status = "return" =>
            LET built == p_outs[k].val IN
            /\ Len(built.messages) = Len(p_messages)
            /\ \A i \in DOMAIN p_messages :
                 /\ DOMAIN built.messages[i] = {"role", "text"}
                 /\ built.messages[i].role = Lower(p_messages[i].role)
                 /\ built.messages[i].text.py = "str"
                 /\ built.messages[i].text.v = StrOf(p_messages[i].content)
            /\ Len(built.tools) = Len(p_tools)
            /\ \A i \in DOMAIN p_tools :
                 /\ built.tools[i].name = p_tools[i].name
                 /\ {"name", "description", "example"} \subseteq DOMAIN built.tools[i]
                 /\ ("side_effects" \in DOMAIN built.tools[i])
                      = ("side_effects" \in DOMAIN p_tools[i]))

\* two calls at different times on a history of two messages, one with a
\* capitalised role and an int content, and on two tools without optional keys
C31_Witness ==
  /\ Len(p_outs) = 2
  /\ p_outs[1].status = "return"
  /\ p_outs[1].val.current_time # p_outs[2].val.current_time
  /\ p_messages = << UserMessage, [role |-> Str("User"), content |-> Num(7)] >>
  /\ p_outs[2].val.messages[2] = [role |-> Str("user"), text |-> FStr(<<"repr:", Num(7)>>)]
  /\ Len(p_tools) = 2
  /\ p_outs[2].val.tools[1] = [name |-> "search", description |-> "", example |-> EmptyExample]

\* C32: process_message called with an empty history ends at once, returning
\* "Error: No context provided"; the model client is not called, no tool is
\* dispatched, and the adapter cache and the registry are left as they were.
C32_EmptyHistoryRejected ==
  /\ [][ (pc = "Idle" /\ pc' # pc /\ context' = <<>>) =>
           /\ pc' = "Done"
           /\ result' = Ret(Str("Error: No context provided"))
           /\ model_calls' = 0
           /\ outputs' = <<>>
           /\ dispatched' = <<>>
           /\ tool_cache' = tool_cache
           /\ tools' = tools ]_vars
  /\ []((pc = "Done" /\ history0 = <<>>) =>
          /\ result = Ret(Str("Error: No context provided"))
          /\ model_calls = 0
          /\ dispatched = <<>>
          /\ context = <<>>)
  /\ [][ (pc = "Done" /\ history0 = <<>> /\ pc' # pc) =>
           (pc' = "Idle" /\ model_calls' = 0 /\ tool_cache' = tool_cache
              /\ tools' = tools) ]_vars

\* a call with an empty history on an orchestrator that has an adapter cached
\* from an earlier turn
C32_Witness ==
  /\ pc = "Done"
  /\ history0 = <<>>
  /\ result = Ret(Str("Error: No context provided"))
  /\ tool_cache # <<>>
  /\ model_calls = 0

====
